---- MODULE Spec2Model ----
(***************************************************************************)
(* Asset ingestion pipeline of lenbrary-server: the POST /upload and       *)
(* DELETE /:id handlers of src/routes/assets.routes.ts together with the   *)
(* StorageService, DatabaseService and ImageService calls they make.       *)
(* A handler runs on the single node.js thread: every action below is one  *)
(* run-to-completion segment of a handler, i.e. the code between two       *)
(* awaits.  The database (assets, asset_exif, asset_video_metadata), the    *)
(* asset tree (dirs, files) and the multer temp directory (tmp) are shared *)
(* by all requests.                                                        *)
(***************************************************************************)
EXTENDS Integers, Sequences, FiniteSets, TLC

\* ---- bounds of the model ------------------------------------------------
MaxReq == 2
MaxClock == 1
MsPerDay == 1

MaxPage == 2
MaxChunk == 2

Reqs == 1..MaxReq

\* ---- optional values (undefined / NULL) ---------------------------------
None == <<>>
Some(v) == <<v>>
IsSome(o) == o # <<>>
Val(o) == o[1]

\* ---- inputs: client file names --------------------------------------------
Names == {<<"a", ".", "x">>, <<"b">>}

\* file-type: magic-byte sniffing of the buffer; undefined when no
\* signature matches
fileTypeFromBuffer(b) ==
  CASE Len(b) >= 2 /\ b[1] = "FF" /\ b[2] = "D8" ->
         Some([ext |-> "jpg", mime |-> <<"image", "jpeg">>])
    [] Len(b) >= 1 /\ b[1] = "ftyp" -> Some([ext |-> "mp4", mime |-> <<"video", "mp4">>])
    [] Len(b) >= 1 /\ b[1] = "%PDF" ->
         Some([ext |-> "pdf", mime |-> <<"application", "pdf">>])
    [] OTHER -> None

\* mime.startsWith('image/'), mime.startsWith('video/')
startsWith(mime, prefix) == mime[1] = prefix

\* byte length of an upload (multer's file.size)
SizeOf(b) == Len(b)

\* whether the image carries an embedded metadata block (an APP1 segment);
\* the block itself is the element that follows the marker
HasExif(b) == Len(b) >= 3 /\ b[3] = "E1"

\* pixel dimensions sharp reports for a decodable image
PixelsOf(b) ==
  IF HasExif(b) THEN [width |-> 3000, height |-> 2000]
  ELSE [width |-> 640, height |-> 480]

\* ---- utils/hash.ts ------------------------------------------------------
\* crypto.createHash('sha256'): a hash object is the bytes it has absorbed;
\* SHA-256 is taken as collision-free, so the hex digest stands for them
createHash == <<>>

\* mutant: update forgets what was absorbed before
updateReplace(h, data) == data

update(h, data) == h \o data
digest(h) == <<"sha256", h>>

\* fs.createReadStream(filePath): the file arrives in 'data' chunks of at
\* most highWaterMark bytes
RECURSIVE createReadStream(_, _)
createReadStream(b, highWaterMark) ==
  IF Len(b) <= highWaterMark THEN (IF Len(b) = 0 THEN <<>> ELSE <<b>>)
  ELSE <<SubSeq(b, 1, highWaterMark)>>
       \o createReadStream(SubSeq(b, highWaterMark + 1, Len(b)), highWaterMark)

\* stream.on('data', chunk => hash.update(chunk))
RECURSIVE absorb(_, _)
absorb(h, chunks) ==
  IF chunks = <<>> THEN h ELSE absorb(update(h, Head(chunks)), Tail(chunks))

\* calculateFileHash: stream the file through the hash, digest on 'end'
calculateFileHash(chunks) == digest(absorb(createHash, chunks))

\* calculateBufferHash: one update with the whole buffer
calculateBufferHash(b) == digest(update(createHash, b))

\* calculateBufferHashAsync: the same, wrapped in a promise
calculateBufferHashAsync(b) == digest(update(createHash, b))

\* ---- JavaScript values ---------------------------------------------------
\* a value of type undefined, null, string or number; a number is the
\* rational num/den (den > 0), NaN and Infinity are numbers of their own
JsValue(type, num, den, str) == [type |-> type, num |-> num, den |-> den, str |-> str]
undefined == JsValue("undefined", 0, 1, "")
null == JsValue("null", 0, 1, "")
NaN == JsValue("NaN", 0, 1, "")
JsString(s) == JsValue("string", 0, 1, s)
JsNumber(n, d) == JsValue("number", n, d, "")

isNaN(v) == v.type = "NaN"

\* !value: undefined, null, '', 0 and NaN are falsy
Falsy(v) ==
  \/ v.type \in {"undefined", "null", "NaN"}
  \/ v.type = "string" /\ v.str = ""
  \/ v.type = "number" /\ v.num = 0

CharAt(s, i) == SubSeq(s, i, i)

\* str.includes(sub)
includes(s, sub) ==
  \E i \in 1..(Len(s) - Len(sub) + 1) : SubSeq(s, i, i + Len(sub) - 1) = sub

DecDigits == "0123456789"
HexDigits == "0123456789abcdef"
UpperCase == "ABCDEFGHIJKLMNOPQRSTUVWXYZ"
LowerCase == "abcdefghijklmnopqrstuvwxyz"

IndexOf(chars, c) ==
  IF \E i \in 1..Len(chars) : CharAt(chars, i) = c
  THEN CHOOSE i \in 1..Len(chars) : CharAt(chars, i) = c
  ELSE 0

\* map every character of s that occurs in from to the one at the same
\* place in to
RECURSIVE Translate(_, _, _)
Translate(s, from, to) ==
  IF s = "" THEN ""
  ELSE LET c == CharAt(s, 1)
           i == IndexOf(from, c)
       IN (IF i = 0 THEN c ELSE CharAt(to, i)) \o Translate(Tail(s), from, to)

toLowerCase(s) == Translate(s, UpperCase, LowerCase)
toUpperCase(s) == Translate(s, LowerCase, UpperCase)

\* str.padStart(targetLength, padString) for a one-character padString
RECURSIVE padStart(_, _, _)
padStart(s, targetLength, padString) ==
  IF Len(s) >= targetLength THEN s ELSE padStart(padString \o s, targetLength, padString)

\* str.trim(): blanks at both ends removed
RECURSIVE trimStart(_)
trimStart(s) == IF s # "" /\ CharAt(s, 1) = " " THEN trimStart(Tail(s)) ELSE s
RECURSIVE trimEnd(_)
trimEnd(s) ==
  IF s # "" /\ CharAt(s, Len(s)) = " " THEN trimEnd(SubSeq(s, 1, Len(s) - 1)) ELSE s
trim(s) == trimEnd(trimStart(s))

\* n.toString(radix) of a non-negative integer, radix 10 or 16
RECURSIVE IntToString(_, _)
IntToString(n, radix) ==
  IF n < radix THEN CharAt(HexDigits, n + 1)
  ELSE IntToString(n \div radix, radix) \o CharAt(HexDigits, (n % radix) + 1)

\* the digits after the decimal point of f/d, d a power of ten, f < d
RECURSIVE FractionDigits(_, _)
FractionDigits(f, d) ==
  IF f = 0 THEN ""
  ELSE CharAt(DecDigits, (f \div (d \div 10)) + 1) \o FractionDigits(f % (d \div 10), d \div 10)

\* String(value): a string is itself; a number is written in decimal, its
\* denominator being a power of ten
String(v) ==
  CASE v.type = "string" -> v.str
    [] v.type = "number" ->
         LET a == IF v.num < 0 THEN 0 - v.num ELSE v.num
         IN (IF v.num < 0 THEN "-" ELSE "") \o IntToString(a \div v.den, 10)
            \o (IF a % v.den = 0 THEN "" ELSE "." \o FractionDigits(a % v.den, v.den))
    [] OTHER -> v.type

\* how many decimal digits s holds from position i on
RECURSIVE DigitRun(_, _)
DigitRun(s, i) ==
  IF i <= Len(s) /\ IndexOf(DecDigits, CharAt(s, i)) # 0 THEN 1 + DigitRun(s, i + 1) ELSE 0

\* the value of the decimal digits s[i..j], 0 for none
RECURSIVE DigitsValue(_, _, _)
DigitsValue(s, i, j) ==
  IF j < i THEN 0
  ELSE 10 * DigitsValue(s, i, j - 1) + (IndexOf(DecDigits, CharAt(s, j)) - 1)

RECURSIVE Pow10(_)
Pow10(k) == IF k = 0 THEN 1 ELSE 10 * Pow10(k - 1)

\* parseFloat(str): the longest leading decimal literal digits[.digits],
\* NaN when the string does not start with one
parseFloat(s) ==
  LET la == DigitRun(s, 1)
      dot == la < Len(s) /\ CharAt(s, la + 1) = "."
      lb == IF dot THEN DigitRun(s, la + 2) ELSE 0
  IN IF la = 0 /\ lb = 0 THEN NaN
     ELSE JsNumber(DigitsValue(s, 1, la) * Pow10(lb) + DigitsValue(s, la + 2, la + 1 + lb),
                   Pow10(lb))

\* Number(value): a number is itself; a string must be a decimal literal as
\* a whole ('' gives 0)
Number(v) ==
  CASE v.type = "number" -> v
    [] v.type = "string" ->
         LET s == trim(v.str)
             la == DigitRun(s, 1)
             dot == la < Len(s) /\ CharAt(s, la + 1) = "."
             lb == IF dot THEN DigitRun(s, la + 2) ELSE 0
         IN IF s = "" THEN JsNumber(0, 1)
            ELSE IF la + (IF dot THEN 1 + lb ELSE 0) = Len(s) THEN parseFloat(s) ELSE NaN
    [] v.type = "null" -> JsNumber(0, 1)
    [] OTHER -> NaN

\* Math.round(n/d) for n/d > 0: halves round up
MathRound(n, d) == (2 * n + d) \div (2 * d)

\* ---- ImageService: capture metadata --------------------------------------
\* the tags of ExifTool read by parseExifToolTags that the model carries;
\* every other tag is absent from every image of the model
TagNames == {"Make", "ISO", "ExposureTime", "ExposureProgram", "ExposureMode",
             "MeteringMode", "Flash", "ExifVersion", "FlashpixVersion",
             "GPSLatitude", "GPSLongitude"}

\* the metadata block embedded in an image: tag values as ExifTool reports
\* them, and the GPS position as degrees/minutes/seconds with its references
NoGps == [lat |-> None, latRef |-> "", lon |-> None, lonRef |-> ""]
Gps(lat, latRef, lon, lonRef) ==
  [lat |-> Some(lat), latRef |-> latRef, lon |-> Some(lon), lonRef |-> lonRef]
Embedded(fields, gps) == [fields |-> fields, gps |-> gps]
NoFields == [t \in {} |-> undefined]
NoMetadata == Embedded(NoFields, NoGps)

\* exiftool.read(imagePath) of exiftool-vendored: the tags of the file;
\* GPSLatitude and GPSLongitude are numeric tags, decimal degrees carrying
\* the sign of their reference (negative for S and W)
DecimalDegrees(dms, ref) ==
  LET arcsec == 3600 * dms[1] + 60 * dms[2] + dms[3]
  IN JsNumber(IF ref \in {"S", "W"} THEN 0 - arcsec ELSE arcsec, 3600)

exiftoolRead(e) ==
  [t \in TagNames |->
     CASE t = "GPSLatitude" ->
            IF IsSome(e.gps.lat) THEN DecimalDegrees(Val(e.gps.lat), e.gps.latRef)
            ELSE undefined
       [] t = "GPSLongitude" ->
            IF IsSome(e.gps.lon) THEN DecimalDegrees(Val(e.gps.lon), e.gps.lonRef)
            ELSE undefined
       [] OTHER -> IF t \in DOMAIN e.fields THEN e.fields[t] ELSE undefined]

cleanStringValue(value) ==
  IF value.type \in {"undefined", "null"} THEN undefined
  ELSE LET str == trim(String(value))
       IN IF str = "" THEN undefined ELSE JsString(str)

parseNumber(value) ==
  IF value.type \in {"undefined", "null"} THEN undefined
  ELSE LET num == Number(value) IN IF isNaN(num) THEN undefined ELSE num

formatExposureTime(value) ==
  IF Falsy(value) THEN undefined
  ELSE LET str == String(value)
           num == parseFloat(str)
       IN IF includes(str, "/") THEN JsString(str)
          ELSE IF isNaN(num) THEN JsString(str)
          ELSE IF num.num < num.den
               THEN IF num.num = 0 THEN JsString("1/Infinity")
                    ELSE JsString("1/" \o IntToString(MathRound(num.den, num.num), 10))
               ELSE JsString(str)

\* programs[String(value)] || String(value)
Lookup(table, value) ==
  IF Falsy(value) THEN undefined
  ELSE IF String(value) \in DOMAIN table THEN JsString(table[String(value)])
  ELSE JsString(String(value))

programs ==
  [k \in {"0", "1", "2", "3", "4", "5", "6", "7", "8", "9"} |->
     CASE k = "0" -> "Not defined"
       [] k = "1" -> "Manual"
       [] k = "2" -> "Normal program"
       [] k = "3" -> "Aperture-priority AE"
       [] k = "4" -> "Shutter-priority AE"
       [] k = "5" -> "Creative program"
       [] k = "6" -> "Action program"
       [] k = "7" -> "Portrait mode"
       [] k = "8" -> "Landscape mode"
       [] k = "9" -> "Bulb"]

exposureModes ==
  [k \in {"0", "1", "2"} |->
     CASE k = "0" -> "Auto" [] k = "1" -> "Manual" [] k = "2" -> "Auto bracket"]

meteringModes ==
  [k \in {"0", "1", "2", "3", "4", "5", "6", "255"} |->
     CASE k = "0" -> "Unknown"
       [] k = "1" -> "Average"
       [] k = "2" -> "Center-weighted average"
       [] k = "3" -> "Spot"
       [] k = "4" -> "Multi-spot"
       [] k = "5" -> "Multi-segment"
       [] k = "6" -> "Partial"
       [] k = "255" -> "Other"]

formatExposureProgram(value) == Lookup(programs, value)
formatExposureMode(value) == Lookup(exposureModes, value)
formatMeteringMode(value) == Lookup(meteringModes, value)

formatFlash(value) ==
  IF Falsy(value) THEN undefined
  ELSE LET str == toLowerCase(String(value))
       IN IF includes(str, "did not fire") \/ str = "no" THEN JsString("Did not fire")
          ELSE IF includes(str, "fired") \/ str = "yes" THEN JsString("Fired")
          ELSE JsString(String(value))

\* a number is written in hex, upper case, padded to four digits; a string
\* is returned as it is, on both branches of the hex test
formatHexVersion(value) ==
  IF Falsy(value) THEN undefined
  ELSE IF value.type = "number"
       THEN JsString(padStart(toUpperCase(IntToString(value.num \div value.den, 16)), 4, "0"))
       ELSE JsString(String(value))

\* mutant: the coordinate is stored without its sign
parseGPSCoordinateUnsigned(value) ==
  IF Falsy(value) THEN undefined
  ELSE JsNumber(IF value.num < 0 THEN 0 - value.num ELSE value.num, value.den)

parseGPSCoordinate(value) ==
  IF Falsy(value) THEN undefined
  ELSE IF value.type = "number" THEN value
  ELSE LET num == parseFloat(String(value)) IN IF isNaN(num) THEN undefined ELSE num

\* tags.X || tags.Y where the tag Y is absent
OrAbsent(value) == IF Falsy(value) THEN undefined ELSE value

\* parseExifToolTags(tags): the ExtractedExifData of the tags
parseExifToolTags(tags) ==
  LET gps == ~Falsy(tags.GPSLatitude) /\ ~Falsy(tags.GPSLongitude)
  IN [make |-> cleanStringValue(OrAbsent(tags.Make)),
      iso |-> parseNumber(OrAbsent(tags.ISO)),
      exposure_time |-> formatExposureTime(OrAbsent(tags.ExposureTime)),
      exposure_program |-> formatExposureProgram(tags.ExposureProgram),
      exposure_mode |-> formatExposureMode(tags.ExposureMode),
      metering_mode |-> formatMeteringMode(tags.MeteringMode),
      flash |-> formatFlash(OrAbsent(tags.Flash)),
      exif_version |-> formatHexVersion(tags.ExifVersion),
      flashpix_version |-> formatHexVersion(tags.FlashpixVersion),
      gps_latitude |-> IF gps THEN parseGPSCoordinate(tags.GPSLatitude) ELSE undefined,
      gps_longitude |-> IF gps THEN parseGPSCoordinate(tags.GPSLongitude) ELSE undefined]

\* Object.values(result).some(value => value !== undefined && value !== null
\* && value !== '')
hasData(result) ==
  \E k \in DOMAIN result : result[k] \notin {undefined, null, JsString("")}

\* imageService.extractExif(imagePath, assetId) on a readable file holding
\* the bytes b: the CreateExifData of its tags, null when no field has data
EmbeddedOf(b) == IF HasExif(b) /\ Len(b) >= 4 THEN b[4] ELSE NoMetadata

CreateExifData(result, assetId) ==
  [k \in DOMAIN result \cup {"asset_id"} |->
     IF k = "asset_id" THEN assetId ELSE result[k]]

\* mutant: the result is returned whether or not a field has data
extractExifAlways(b, assetId) ==
  Some(CreateExifData(parseExifToolTags(exiftoolRead(EmbeddedOf(b))), assetId))

extractExif(b, assetId) ==
  LET result == parseExifToolTags(exiftoolRead(EmbeddedOf(b)))
  IN IF hasData(result) THEN Some(CreateExifData(result, assetId)) ELSE None

\* ---- inputs: uploaded byte strings ---------------------------------------
\* a buffer is a sequence of bytes; the leading bytes are the signature
\* file-type looks for
SampleMetadata ==
  Embedded([Make |-> JsString("FUJIFILM")], NoGps)

Contents == {<<"FF", "D8", "E1", SampleMetadata>>, <<"FF", "D8", "DB">>,
             <<"ftyp", "isom">>, <<"%PDF">>, <<"hi">>}

\* ---- StorageService helpers ---------------------------------------------
RECURSIVE lastIndexOf(_, _, _)
lastIndexOf(s, ch, i) ==
  IF i = 0 THEN 0 ELSE IF s[i] = ch THEN i ELSE lastIndexOf(s, ch, i - 1)

\* getExtension(filename): the substring from the last dot, '' without a dot
getExtension(filename) ==
  LET lastDotIndex == lastIndexOf(filename, ".", Len(filename))
  IN IF lastDotIndex # 0 THEN SubSeq(filename, lastDotIndex, Len(filename))
     ELSE <<>>

\* YYYY/MM/DD of new Date()
datePath(t) == t \div MsPerDay

uploadDir == <<"uploads">>
originalDir == <<"uploads", "original">>
thumbnailDir == <<"uploads", "thumbnails">>

\* ensureDir(dir): mkdirSync(dir, {recursive: true}) unless it exists
ensureDir(ds, dir) ==
  ds \cup {SubSeq(dir, 1, k) : k \in 1..Len(dir)}

\* ensureDirs(): upload root, original/ and thumbnails/
ensureDirs(ds) == ensureDir(ensureDir(ensureDir(ds, uploadDir), originalDir), thumbnailDir)

\* join(dir, name) of a stored file
FilePath(root, day, stem, ext) ==
  [root |-> root, date |-> day, stem |-> stem, ext |-> ext]

\* file system maps: path -> what the file holds
WriteFile(fs, p, d) == [q \in DOMAIN fs \cup {p} |-> IF q = p THEN d ELSE fs[q]]
Unlink(fs, p) == [q \in DOMAIN fs \ {p} |-> fs[q]]
existsSync(fs, p) == p \in DOMAIN fs
EmptyFs == [q \in {} |-> q]

\* ---- state ---------------------------------------------------------------
VARIABLES
  now,        \* Date.now(), in milliseconds
  tmp,        \* multer temp dir: temp path -> [data, writers]
  dirs,       \* directories existing under the upload root
  files,      \* files under the upload root: path -> [kind, data]
  nextUuid,   \* names handed out by uuidv4(): never repeated
  assets,     \* rows of table assets
  asset_exif, \* rows of table asset_exif
  nextId,     \* AUTOINCREMENT sequence of assets.id
  req,        \* per upload request: position and locals of the handler
  asset_video_metadata, \* rows of table asset_video_metadata
  del,        \* what the latest DELETE /:id was answered
  call,       \* the latest direct call of a service method and its outcome
  migrationFiles,     \* the .sql files of the migrations directory
  schema_migrations,  \* rows of table __schema_migrations__
  schema,     \* versions whose UP statements are in effect in the database
  running     \* the server process has not exited

\* what the asset routes leave alone
service == <<call, migrationFiles, schema_migrations, schema, running>>

vars == <<now, tmp, dirs, files, nextUuid, assets, asset_exif, nextId, req,
          asset_video_metadata, del, service>>

\* a call of a service method: its argument, what it returned, whether it
\* threw instead
Call(op, arg, ret, threw) == [op |-> op, arg |-> arg, ret |-> ret, threw |-> threw]

IdleReq ==
  [pc |-> "idle", file |-> None, buffer |-> None, fileHash |-> None,
   type |-> None, uploadResult |-> None, thumbPath |-> None,
   processResult |-> None, width |-> None, height |-> None,
   thumbnailPath |-> None, createdAsset |-> None, exifData |-> None,
   res |-> None]

Init ==
  /\ now = 0
  /\ tmp = EmptyFs
  /\ dirs = {}
  /\ files = EmptyFs
  /\ nextUuid = 1
  /\ assets = {}
  /\ asset_exif = {}
  /\ nextId = 1
  /\ req = [r \in Reqs |-> IdleReq]
  /\ asset_video_metadata = {}
  /\ del = None
  /\ call = Call("", None, None, FALSE)
  /\ migrationFiles = {}
  /\ schema_migrations = {}
  /\ schema = {}
  /\ running = TRUE

\* ---- DatabaseService -----------------------------------------------------
getAssetById(tbl, id) ==
  IF \E a \in tbl : a.id = id THEN Some(CHOOSE a \in tbl : a.id = id) ELSE None

\* mutant: the lookup queries a column that never holds the digest
getAssetByHashNoMatch(tbl, hash) == None

getAssetByHash(tbl, hash) ==
  IF \E a \in tbl : a.file_hash = Some(hash)
  THEN Some(CHOOSE a \in tbl : a.file_hash = Some(hash)) ELSE None

getExifByAssetId(tbl, id) ==
  IF \E e \in tbl : e.asset_id = id
  THEN Some(CHOOSE e \in tbl : e.asset_id = id) ELSE None

\* mutant: the table has no unique index on file_hash
HashConflictNoIndex(tbl, asset) == FALSE

\* unique index idx_assets_file_hash: an INSERT whose file_hash equals that
\* of an existing row is refused (NULL hashes never conflict)
HashConflict(tbl, asset) ==
  /\ IsSome(asset.file_hash)
  /\ \E a \in tbl : a.file_hash = asset.file_hash

\* mutant: on a hash conflict the INSERT overwrites the columns of the
\* existing row (ON CONFLICT DO UPDATE)
createAssetUpsert(tbl, seq, asset) ==
  IF HashConflict(tbl, asset)
  THEN LET old == CHOOSE a \in tbl : a.file_hash = asset.file_hash
           row == [asset EXCEPT !.id = old.id]
       IN [ok |-> TRUE, code |-> "", tbl |-> (tbl \ {old}) \cup {row}, seq |-> seq,
           row |-> Some(row)]
  ELSE LET row == [asset EXCEPT !.id = seq]
       IN [ok |-> TRUE, code |-> "", tbl |-> tbl \cup {row}, seq |-> seq + 1,
           row |-> Some(row)]

\* mutant: the conflict is raised after the row has been written
createAssetInsertThenFail(tbl, seq, asset) ==
  LET row == [asset EXCEPT !.id = seq]
  IN IF HashConflict(tbl, asset)
     THEN [ok |-> FALSE, code |-> "SQLITE_CONSTRAINT_UNIQUE", tbl |-> tbl \cup {row},
           seq |-> seq + 1, row |-> None]
     ELSE [ok |-> TRUE, code |-> "", tbl |-> tbl \cup {row}, seq |-> seq + 1,
           row |-> Some(row)]

\* mutant: id is INTEGER PRIMARY KEY without AUTOINCREMENT, the new rowid is
\* one more than the largest id in the table
createAssetMaxRowid(tbl, seq, asset) ==
  LET used == {a.id : a \in tbl}
      id == IF used = {} THEN 1 ELSE (CHOOSE m \in used : \A n \in used : n <= m) + 1
      row == [asset EXCEPT !.id = id]
  IN IF HashConflict(tbl, asset)
     THEN [ok |-> FALSE, code |-> "SQLITE_CONSTRAINT_UNIQUE", tbl |-> tbl, seq |-> seq,
           row |-> None]
     ELSE [ok |-> TRUE, code |-> "", tbl |-> tbl \cup {row}, seq |-> id + 1,
           row |-> Some(row)]

\* createAsset: INSERT, then SELECT the row by lastInsertRowid
createAsset(tbl, seq, asset) ==
  IF HashConflict(tbl, asset)
  THEN [ok |-> FALSE, code |-> "SQLITE_CONSTRAINT_UNIQUE", tbl |-> tbl, seq |-> seq,
        row |-> None]
  ELSE LET row == [asset EXCEPT !.id = seq]
       IN [ok |-> TRUE, code |-> "", tbl |-> tbl \cup {row}, seq |-> seq + 1,
           row |-> Some(row)]


\* mutant: the rows come back oldest first
OrderByCreatedAtAsc(rows) ==
  {s \in [1..Cardinality(rows) -> rows] :
     \A i, j \in 1..Cardinality(rows) :
       i < j => s[i] # s[j] /\ s[i].created_at <= s[j].created_at}

\* ORDER BY created_at DESC: every ordering of the rows that SQLite may
\* produce, rows of equal created_at coming in any order
OrderByCreatedAtDesc(rows) ==
  {s \in [1..Cardinality(rows) -> rows] :
     \A i, j \in 1..Cardinality(rows) :
       i < j => s[i] # s[j] /\ s[i].created_at >= s[j].created_at}

\* LIMIT ? OFFSET ? as SQLite evaluates it: a negative LIMIT is no limit,
\* a negative OFFSET is 0
LimitOffset(s, limit, offset) ==
  LET skip == IF offset < 0 THEN 0 ELSE offset
      last == IF limit < 0 \/ skip + limit > Len(s) THEN Len(s) ELSE skip + limit
  IN IF skip >= last THEN <<>> ELSE SubSeq(s, skip + 1, last)

\* getAssets(limit, offset, type): WHERE file_type = ? only `if (type)`,
\* i.e. for a non-empty string; the set of results the query may return
getAssets(tbl, limit, offset, type) ==
  LET rows == IF IsSome(type) /\ Val(type) # ""
              THEN {a \in tbl : a.file_type = Val(type)} ELSE tbl
  IN {LimitOffset(s, limit, offset) : s \in OrderByCreatedAtDesc(rows)}

\* columns of asset_exif and of asset_video_metadata that the model carries
ExifColumns == {"asset_id", "make", "iso", "exposure_time", "exposure_program",
                "exposure_mode", "metering_mode", "flash", "exif_version",
                "flashpix_version", "gps_latitude", "gps_longitude"}
VideoColumns == {"asset_id", "duration", "video_codec", "is_hdr", "hdr_format"}

\* mutant: only undefined and null become NULL
SqlValueNullish(val) == IF val \notin {undefined, null} THEN val ELSE null

\* val !== undefined && val !== null && val !== '' ? val : null
SqlValue(val) == IF val \notin {undefined, null, JsString("")} THEN val ELSE null

\* INSERT INTO table (columns of data) VALUES (...): the row that is stored,
\* columns that are not named being NULL
InsertedRow(columns, data) ==
  [c \in columns |->
     IF c = "asset_id" THEN data.asset_id
     ELSE IF c \in DOMAIN data THEN SqlValue(data[c]) ELSE null]

\* mutant: the insert is checked against no constraint
createExifUnchecked(etbl, atbl, exif) ==
  [ok |-> TRUE, tbl |-> etbl \cup {InsertedRow(ExifColumns, exif)}]

\* createExif: INSERT INTO asset_exif; asset_id is UNIQUE and references
\* assets(id)
createExif(etbl, atbl, exif) ==
  IF (\E e \in etbl : e.asset_id = exif.asset_id) \/ ~(\E a \in atbl : a.id = exif.asset_id)
  THEN [ok |-> FALSE, tbl |-> etbl]
  ELSE [ok |-> TRUE, tbl |-> etbl \cup {InsertedRow(ExifColumns, exif)}]

\* createVideoMetadata: INSERT INTO asset_video_metadata; asset_id is UNIQUE
\* and references assets(id)
createVideoMetadata(vtbl, atbl, videoMetadata) ==
  IF \/ \E v \in vtbl : v.asset_id = videoMetadata.asset_id
     \/ ~(\E a \in atbl : a.id = videoMetadata.asset_id)
  THEN [ok |-> FALSE, tbl |-> vtbl]
  ELSE [ok |-> TRUE, tbl |-> vtbl \cup {InsertedRow(VideoColumns, videoMetadata)}]

\* ---- responses and errors ------------------------------------------------
\* what the client gets: res.status(..).json(..) or the error thrown to the
\* error middleware (statusCode, message); caught is the error the handler's
\* catch block received, "" when it was not entered
Response(status, duplicate, data, exif, message, caught) ==
  [status |-> status, duplicate |-> duplicate, data |-> data, exif |-> exif,
   message |-> message, caught |-> caught]

\* mutant: the catch block does not remove the temp file
CatchUploadKeepsTemp(rq, t, error) ==
  [rq |-> [rq EXCEPT !.pc = "done",
                     !.res = Some(Response(500, FALSE, None, None,
                                           "Failed to upload file", error))],
   tmp |-> t]

\* catch (error) of the upload handler: remove the temp file when it
\* exists, throw InternalServerError('Failed to upload file')
CatchUpload(rq, t, error) ==
  LET p == Val(rq.file).path
  IN [rq |-> [rq EXCEPT !.pc = "done",
                        !.res = Some(Response(500, FALSE, None, None,
                                              "Failed to upload file", error))],
      tmp |-> IF existsSync(t, p) THEN Unlink(t, p) ELSE t]

\* ---- POST /upload --------------------------------------------------------
\* requests are numbered in the order in which they arrive
Arrives(r) == \A q \in Reqs : q < r => req[q].pc # "idle"

\* multer diskStorage: the upload is streamed to tempDir under the name
\* `${Date.now()}-${file.originalname}`; an existing file of that name is
\* truncated and written again.  writers records whose stream wrote the file.
\* The fileFilter's fixFilenameEncoding returns an all-ASCII name as it is,
\* and Names holds ASCII names only.
ReceiveFile(r, contents) ==
  /\ req[r].pc = "idle"
  /\ Arrives(r)
  /\ \E b \in contents, n \in Names :
       LET p == [time |-> now, name |-> n]
           f == [originalname |-> n, path |-> p, size |-> SizeOf(b)]
           w == IF existsSync(tmp, p) THEN tmp[p].writers ELSE {}
       IN /\ tmp' = WriteFile(tmp, p, [data |-> b, writers |-> w \cup {r}])
          /\ req' = [req EXCEPT ![r] = [IdleReq EXCEPT !.pc = "start", !.file = Some(f)]]
  /\ UNCHANGED <<now, dirs, files, nextUuid, assets, asset_exif, nextId, asset_video_metadata, del, service>>

Receive(r) == ReceiveFile(r, Contents)

\* if (!file) throw new BadRequestError('No file uploaded')
NoFile(r) ==
  /\ req[r].pc = "idle"
  /\ Arrives(r)
  /\ req' = [req EXCEPT ![r] = [IdleReq EXCEPT !.pc = "done",
               !.res = Some(Response(400, FALSE, None, None, "No file uploaded", ""))]]
  /\ UNCHANGED <<now, tmp, dirs, files, nextUuid, assets, asset_exif, nextId, asset_video_metadata, del, service>>

\* readFileSync(file.path); await calculateBufferHashAsync(buffer)
ReadAndHash(r) ==
  /\ req[r].pc = "start"
  /\ LET rq == req[r]
         p == Val(rq.file).path
     IN IF existsSync(tmp, p)
        THEN /\ req' = [req EXCEPT ![r] = [rq EXCEPT !.pc = "hashed",
                          !.buffer = Some(tmp[p].data),
                          !.fileHash = Some(calculateBufferHashAsync(tmp[p].data))]]
             /\ tmp' = tmp
        ELSE LET c == CatchUpload(rq, tmp, "ENOENT")
             IN req' = [req EXCEPT ![r] = c.rq] /\ tmp' = c.tmp
  /\ UNCHANGED <<now, dirs, files, nextUuid, assets, asset_exif, nextId, asset_video_metadata, del, service>>

\* getAssetByHash(fileHash): on a hit remove the temp file and answer 200
\* with the existing asset; otherwise await fileTypeFromBuffer(buffer)
LookupByHash(r) ==
  /\ req[r].pc = "hashed"
  /\ LET rq == req[r]
         p == Val(rq.file).path
         existingAsset == getAssetByHash(assets, Val(rq.fileHash))
     IN IF IsSome(existingAsset)
        THEN IF existsSync(tmp, p)
             THEN /\ tmp' = Unlink(tmp, p)
                  /\ req' = [req EXCEPT ![r] = [rq EXCEPT !.pc = "done",
                       !.res = Some(Response(200, TRUE, existingAsset,
                                 IF Val(existingAsset).file_type = "image"
                                 THEN getExifByAssetId(asset_exif, Val(existingAsset).id)
                                 ELSE None,
                                 "File already exists", ""))]]
             ELSE LET c == CatchUpload(rq, tmp, "ENOENT")
                  IN req' = [req EXCEPT ![r] = c.rq] /\ tmp' = c.tmp
        ELSE /\ req' = [req EXCEPT ![r] = [rq EXCEPT !.pc = "sniffed",
                          !.type = fileTypeFromBuffer(Val(rq.buffer))]]
             /\ tmp' = tmp
  /\ UNCHANGED <<now, dirs, files, nextUuid, assets, asset_exif, nextId, asset_video_metadata, del, service>>

\* mutant: every detected type passes the check
TypeAllowedAnyDetected(type) == IsSome(type)

\* the policy of the type check: only image/* and video/* pass
TypeAllowed(type) ==
  /\ IsSome(type)
  /\ startsWith(Val(type).mime, "image") \/ startsWith(Val(type).mime, "video")

\* lines 210-247 for a request whose locals are rq: build the asset,
\* createAsset, then for an image await extractExif, for a video answer 201.
\* dbOk = FALSE is a database failure other than the unique-hash conflict.
Persist(r, rq, t, dbOk) ==
  LET ur == Val(rq.uploadResult)
      ty == Val(rq.type)
      fileType == IF startsWith(ty.mime, "image") THEN "image" ELSE "video"
      asset == [id |-> 0,
                original_name |-> Val(rq.file).originalname,
                stored_name |-> ur.storedName,
                file_path |-> ur.filePath,
                thumbnail_path |-> rq.thumbnailPath,
                mime_type |-> ty.mime,
                file_type |-> fileType,
                file_size |-> Val(rq.file).size,
                width |-> IF IsSome(rq.width) /\ Val(rq.width) # 0 THEN rq.width ELSE None,
                height |-> IF IsSome(rq.height) /\ Val(rq.height) # 0 THEN rq.height ELSE None,
                file_hash |-> rq.fileHash,
                created_at |-> now]
      ins == createAsset(assets, nextId, asset)
  IN IF ~dbOk \/ ~ins.ok
     THEN LET c == CatchUpload(rq, t, IF ~dbOk THEN "SQLITE_ERROR" ELSE ins.code)
          IN /\ req' = [req EXCEPT ![r] = c.rq]
             /\ tmp' = c.tmp
             /\ UNCHANGED <<assets, nextId>>
     ELSE /\ assets' = ins.tbl
          /\ nextId' = ins.seq
          /\ tmp' = t
          /\ req' = [req EXCEPT ![r] =
               IF fileType = "image"
               THEN [rq EXCEPT !.pc = "exif", !.createdAsset = ins.row]
               ELSE [rq EXCEPT !.pc = "done", !.createdAsset = ins.row,
                       !.res = Some(Response(201, FALSE, ins.row, None, "", ""))]]

\* the type check, storageService.uploadFile(file), unlinkSync(file.path),
\* and for an image getThumbnailPath(0, ext) up to await processImage;
\* for a video straight on to createAsset and the 201 answer.
\* writeOk / mkdirOk = FALSE are file system failures of writeFileSync and
\* of the mkdirSync in getThumbnailPath.
CheckTypeAndStore(r) ==
  /\ req[r].pc = "sniffed"
  /\ LET rq == req[r]
         p == Val(rq.file).path
     IN IF ~TypeAllowed(rq.type)
        THEN \* unlinkSync(file.path); throw new BadRequestError(...)
             LET c == CatchUpload(rq, IF existsSync(tmp, p) THEN Unlink(tmp, p) ELSE tmp,
                                  IF existsSync(tmp, p) THEN "BadRequestError" ELSE "ENOENT")
             IN /\ req' = [req EXCEPT ![r] = c.rq]
                /\ tmp' = c.tmp
                /\ UNCHANGED <<dirs, files, nextUuid, assets, asset_exif, nextId>>
        ELSE \E writeOk \in BOOLEAN, mkdirOk \in BOOLEAN, dbOk \in BOOLEAN :
             LET day == datePath(now)
                 dir == Append(originalDir, day)
                 storedName == [uuid |-> nextUuid,
                                ext |-> getExtension(Val(rq.file).originalname)]
                 filePath == FilePath("original", day, nextUuid, storedName.ext)
                 ds == ensureDir(ensureDirs(dirs), dir)
                 placed == existsSync(tmp, p) /\ writeOk
                 ty == Val(rq.type)
             IN /\ nextUuid' = nextUuid + 1
                /\ IF ~placed
                   THEN \* uploadFile threw: readFileSync or writeFileSync
                        LET c == CatchUpload(rq, tmp,
                                   IF existsSync(tmp, p) THEN "EIO" ELSE "ENOENT")
                        IN /\ req' = [req EXCEPT ![r] = c.rq]
                           /\ tmp' = c.tmp
                           /\ dirs' = ds
                           /\ UNCHANGED <<files, assets, asset_exif, nextId>>
                   ELSE LET fs == WriteFile(files, filePath,
                                     [kind |-> "original", data |-> tmp[p].data])
                            t == Unlink(tmp, p)
                            rq1 == [rq EXCEPT !.uploadResult =
                                      Some([storedName |-> storedName,
                                            filePath |-> filePath,
                                            originalPath |-> p])]
                        IN /\ files' = fs
                           /\ asset_exif' = asset_exif
                           /\ IF startsWith(ty.mime, "image")
                              THEN IF ~mkdirOk
                                   THEN LET c == CatchUpload(rq1, t, "EACCES")
                                        IN /\ req' = [req EXCEPT ![r] = c.rq]
                                           /\ tmp' = c.tmp
                                           /\ dirs' = ds
                                           /\ UNCHANGED <<assets, nextId>>
                                   ELSE /\ dirs' = ensureDir(ds, Append(thumbnailDir, day))
                                        /\ tmp' = t
                                        /\ req' = [req EXCEPT ![r] =
                                             [rq1 EXCEPT !.pc = "processing",
                                                !.thumbPath = Some(FilePath("thumbnails", day,
                                                   0, <<".", ty.ext>>))]]
                                        /\ UNCHANGED <<assets, nextId>>
                              ELSE /\ dirs' = ds
                                   /\ Persist(r, rq1, t, dbOk)
  /\ UNCHANGED <<now, asset_video_metadata, del, service>>


\* imageService.processImage(filePath, mime, ext, thumbPath, 512, 0):
\* getImageMetadata, generateThumbnail (sharp writes the JPEG to thumbPath),
\* extractExif; any failure is caught inside and gives canProcess = false.
\* outcome is how far sharp gets on the stored blob.
ProcessImage(r) ==
  /\ req[r].pc = "processing"
  /\ \E outcome \in {"ok", "probe-fails", "thumbnail-fails"} :
       LET rq == req[r]
           imagePath == Val(rq.uploadResult).filePath
           decodable == /\ existsSync(files, imagePath)
                        /\ IsSome(fileTypeFromBuffer(files[imagePath].data))
                        /\ startsWith(Val(fileTypeFromBuffer(files[imagePath].data)).mime,
                                      "image")
       IN IF outcome = "ok" /\ decodable
          THEN LET px == PixelsOf(files[imagePath].data)
               IN /\ files' = WriteFile(files, Val(rq.thumbPath),
                                [kind |-> "thumbnail", data |-> files[imagePath].data])
                  /\ req' = [req EXCEPT ![r] = [rq EXCEPT !.pc = "processed",
                       !.processResult = Some([canProcess |-> TRUE,
                            width |-> Some(px.width), height |-> Some(px.height),
                            thumbnailPath |-> rq.thumbPath])]]
          ELSE /\ files' = files
               /\ req' = [req EXCEPT ![r] = [rq EXCEPT !.pc = "processed",
                    !.processResult = Some([canProcess |-> FALSE,
                         width |-> IF outcome = "thumbnail-fails" /\ decodable
                                   THEN Some(PixelsOf(files[imagePath].data).width)
                                   ELSE None,
                         height |-> IF outcome = "thumbnail-fails" /\ decodable
                                    THEN Some(PixelsOf(files[imagePath].data).height)
                                    ELSE None,
                         thumbnailPath |-> None])]]
  /\ UNCHANGED <<now, tmp, dirs, nextUuid, assets, asset_exif, nextId, asset_video_metadata, del, service>>

\* mutant: the result is taken without looking at canProcess
TakeProcessResultUnchecked(rq) ==
  LET pr == Val(rq.processResult)
  IN [rq EXCEPT !.width = pr.width, !.height = pr.height,
                !.thumbnailPath = pr.thumbnailPath]

\* if (processResult.canProcess) { width = ...; height = ...; thumbnailPath = ... }
TakeProcessResult(rq) ==
  LET pr == Val(rq.processResult)
  IN IF pr.canProcess
     THEN [rq EXCEPT !.width = pr.width, !.height = pr.height,
                     !.thumbnailPath = pr.thumbnailPath]
     ELSE rq

\* after await processImage: take the result, then createAsset and await
\* extractExif
StoreImageAsset(r) ==
  /\ req[r].pc = "processed"
  /\ \E dbOk \in BOOLEAN :
       Persist(r, TakeProcessResult(req[r]), tmp, dbOk)
  /\ UNCHANGED <<now, dirs, files, nextUuid, asset_exif, asset_video_metadata, del, service>>

\* imageService.extractExif(filePath, createdAsset.id), running while the
\* handler awaits it: reads the stored blob; a missing or unreadable file
\* or an image without metadata gives null, never an exception
ExtractExif(r) ==
  /\ req[r].pc = "exif"
  /\ \E readOk \in BOOLEAN :
       LET rq == req[r]
           imagePath == Val(rq.uploadResult).filePath
           id == Val(rq.createdAsset).id
       IN req' = [req EXCEPT ![r] = [rq EXCEPT !.pc = "exifRead",
            !.exifData = IF readOk /\ existsSync(files, imagePath)
                         THEN extractExif(files[imagePath].data, id)
                         ELSE None]]
  /\ UNCHANGED <<now, tmp, dirs, files, nextUuid, assets, asset_exif, nextId, asset_video_metadata, del, service>>

\* mutant: createExif is called outside the inner try block, its error
\* reaches the catch block of the handler
RecordExifAndRespondAborting(r) ==
  /\ req[r].pc = "exifRead"
  /\ \E insertOk \in BOOLEAN :
       LET rq == req[r]
           id == Val(rq.createdAsset).id
           ins == IF IsSome(rq.exifData) /\ insertOk
                  THEN createExif(asset_exif, assets, Val(rq.exifData))
                  ELSE [ok |-> FALSE, tbl |-> asset_exif]
       IN /\ asset_exif' = ins.tbl
          /\ req' = [req EXCEPT ![r] =
               IF IsSome(rq.exifData) /\ ~ins.ok
               THEN CatchUpload(rq, tmp, "SQLITE_ERROR").rq
               ELSE [rq EXCEPT !.pc = "done",
                       !.res = Some(Response(201, FALSE, rq.createdAsset,
                                 IF ins.ok THEN getExifByAssetId(ins.tbl, id) ELSE None,
                                 "", ""))]]
  /\ UNCHANGED <<now, tmp, dirs, files, nextUuid, assets, nextId, asset_video_metadata, del, service>>

\* after await extractExif: if (exifData) createExif, every failure caught
\* and logged; then the 201 answer
RecordExifAndRespond(r) ==
  /\ req[r].pc = "exifRead"
  /\ \E insertOk \in BOOLEAN :
       LET rq == req[r]
           id == Val(rq.createdAsset).id
           ins == IF IsSome(rq.exifData) /\ insertOk
                  THEN createExif(asset_exif, assets, Val(rq.exifData))
                  ELSE [ok |-> FALSE, tbl |-> asset_exif]
       IN /\ asset_exif' = ins.tbl
          /\ req' = [req EXCEPT ![r] = [rq EXCEPT !.pc = "done",
               !.res = Some(Response(201, FALSE, rq.createdAsset,
                         IF ins.ok THEN getExifByAssetId(ins.tbl, id) ELSE None,
                         "", ""))]]
  /\ UNCHANGED <<now, tmp, dirs, files, nextUuid, assets, nextId, asset_video_metadata, del, service>>

\* ---- DELETE /:id ---------------------------------------------------------
\* StorageService.deleteFile: unlink when the path exists
deleteFile(fs, p) == IF existsSync(fs, p) THEN Unlink(fs, p) ELSE fs

\* mutant: the statement reports a change without removing the row
deleteAssetKeepsRow(tbl, id) == [changed |-> TRUE, tbl |-> tbl]

\* deleteAsset: DELETE FROM assets WHERE id = ?; result.changes > 0
deleteAsset(tbl, id) ==
  [changed |-> \E a \in tbl : a.id = id, tbl |-> {a \in tbl : a.id # id}]

\* mutant: the foreign key has no ON DELETE CASCADE action
onDeleteNoAction(tbl, id) == tbl

\* FOREIGN KEY(asset_id) REFERENCES assets(id) ON DELETE CASCADE
onDeleteCascade(tbl, id) == {e \in tbl : e.asset_id # id}

\* res.json(..) or the AppError thrown to the error middleware
DeleteResponse(id, status, message) ==
  Some([id |-> id, status |-> status, message |-> message])

\* getAssetById, 404 when no such row; deleteAsset (the metadata rows go
\* by the cascade), deleteFile(file_path), deleteFile(thumbnail_path)
DeleteAsset(id) ==
  /\ LET asset == getAssetById(assets, id)
         d == deleteAsset(assets, id)
     IN IF ~IsSome(asset)
        THEN /\ del' = DeleteResponse(id, 404, "Asset not found")
             /\ UNCHANGED <<assets, asset_exif, asset_video_metadata, files>>
        ELSE IF d.changed
        THEN LET fs == deleteFile(files, Val(asset).file_path)
             IN /\ assets' = d.tbl
                /\ asset_exif' = onDeleteCascade(asset_exif, id)
                /\ asset_video_metadata' = onDeleteCascade(asset_video_metadata, id)
                /\ files' = IF IsSome(Val(asset).thumbnail_path)
                            THEN deleteFile(fs, Val(Val(asset).thumbnail_path))
                            ELSE fs
                /\ del' = DeleteResponse(id, 200, "Asset deleted successfully")
        ELSE /\ del' = DeleteResponse(id, 500, "Failed to delete asset")
             /\ UNCHANGED <<assets, asset_exif, asset_video_metadata, files>>
  /\ UNCHANGED <<now, tmp, dirs, nextUuid, nextId, req, service>>

\* ---- time ----------------------------------------------------------------
Tick ==
  /\ now < MaxClock
  /\ now' = now + 1
  /\ UNCHANGED <<tmp, dirs, files, nextUuid, assets, asset_exif, nextId, req, asset_video_metadata, del, service>>

Next ==
  \/ \E r \in Reqs : Receive(r)
  \/ \E r \in Reqs : NoFile(r)
  \/ \E r \in Reqs : ReadAndHash(r)
  \/ \E r \in Reqs : LookupByHash(r)
  \/ \E r \in Reqs : CheckTypeAndStore(r)
  \/ \E r \in Reqs : ProcessImage(r)
  \/ \E r \in Reqs : StoreImageAsset(r)
  \/ \E r \in Reqs : ExtractExif(r)
  \/ \E r \in Reqs : RecordExifAndRespond(r)
  \/ \E id \in Reqs : DeleteAsset(id)
  \/ Tick

Spec == Init /\ [][Next]_vars

\* a client that sends its uploads one after the other: the next upload is
\* received only when no upload is being handled
SeqReceive(r) ==
  /\ \A q \in Reqs : req[q].pc \in {"idle", "done"}
  /\ Receive(r)

SeqNext ==
  \/ \E r \in Reqs : SeqReceive(r)
  \/ \E r \in Reqs : NoFile(r)
  \/ \E r \in Reqs : ReadAndHash(r)
  \/ \E r \in Reqs : LookupByHash(r)
  \/ \E r \in Reqs : CheckTypeAndStore(r)
  \/ \E r \in Reqs : ProcessImage(r)
  \/ \E r \in Reqs : StoreImageAsset(r)
  \/ \E r \in Reqs : ExtractExif(r)
  \/ \E r \in Reqs : RecordExifAndRespond(r)
  \/ \E id \in Reqs : DeleteAsset(id)
  \/ Tick

SeqSpec == Init /\ [][SeqNext]_vars

\* ---- one image upload, over the metadata an image may carry --------------
MaxDms == 1
MaxTenths == 12
MaxCode == 10

DmsValues == {<<d, m, sec>> : d \in 0..MaxDms, m \in 0..MaxDms, sec \in 0..MaxDms}

GpsBlocks ==
  {Embedded(NoFields, Gps(lat, latRef, lon, lonRef)) :
     lat \in DmsValues, latRef \in {"N", "S"}, lon \in DmsValues, lonRef \in {"E", "W"}}

\* exposure times in tenths of a second, 1/125 s as a number and as the
\* fraction ExifTool prints, and strings that are no fraction
ExposureTimes ==
  {JsNumber(k, 10) : k \in 0..MaxTenths}
    \cup {JsNumber(8, 1000), JsString("1/125"), JsString("0.5"), JsString("Bulb")}

ExposureBlocks == {Embedded([ExposureTime |-> t], NoGps) : t \in ExposureTimes}

\* numeric codes, codes as strings, and a label as ExifTool prints it
Codes ==
  {JsNumber(k, 1) : k \in 0..MaxCode} \cup {JsNumber(255, 1)}
    \cup {JsString("0"), JsString("3"), JsString("Manual"), JsString("Off, Did not fire")}

CodeTags == {"ExposureProgram", "ExposureMode", "MeteringMode", "Flash"}

\* a block with the camera make and one more tag
WithMake(tag, value) ==
  Embedded([t \in {"Make", tag} |-> IF t = "Make" THEN JsString("FUJIFILM") ELSE value],
           NoGps)

CodeBlocks == {WithMake(tag, code) : tag \in CodeTags, code \in Codes}

Versions ==
  {JsNumber(0, 1), JsNumber(100, 1), JsNumber(562, 1), JsNumber(43981, 1),
   JsString("0232"), JsString("0100"), JsString("a1"), JsString("0a1b")}

VersionBlocks ==
  {WithMake(tag, v) : tag \in {"ExifVersion", "FlashpixVersion"}, v \in Versions}

\* blocks no field of which holds data
EmptyBlocks ==
  {NoMetadata, Embedded([Make |-> JsString("  ")], NoGps),
   Embedded([Make |-> JsString(""), ISO |-> JsString("n/a")], NoGps)}

MetaContents ==
  {<<"FF", "D8", "E1", e>> :
     e \in GpsBlocks \cup ExposureBlocks \cup CodeBlocks \cup VersionBlocks
            \cup EmptyBlocks \cup {SampleMetadata}}
    \cup {<<"FF", "D8", "DB">>}

MetaReceive == ReceiveFile(1, MetaContents)

MetaNext ==
  \/ MetaReceive
  \/ \E r \in Reqs : ReadAndHash(r)
  \/ \E r \in Reqs : LookupByHash(r)
  \/ \E r \in Reqs : CheckTypeAndStore(r)
  \/ \E r \in Reqs : ProcessImage(r)
  \/ \E r \in Reqs : StoreImageAsset(r)
  \/ \E r \in Reqs : ExtractExif(r)
  \/ \E r \in Reqs : RecordExifAndRespond(r)

MetaSpec == Init /\ [][MetaNext]_vars

\* ---- properties ----------------------------------------------------------
Done(r) == req[r].pc = "done" /\ IsSome(req[r].res)
Status(r) == Val(req[r].res).status
Caught(r) == Val(req[r].res).caught

\* the storage an upload may touch: the asset tree and the two tables
Storage == <<dirs, files, assets, asset_exif>>

\* C1: when an upload was answered 201 and its row is still stored, a later
\* upload of the same bytes handled after it (other file name allowed) ends
\* at the hash lookup: it is answered 200 with duplicate = true and the id
\* of the first upload's asset, and neither the lookup nor any earlier step
\* of the request inserts a row or writes a directory or file of the tree.
C1_DuplicateReturnsFirstAsset ==
  [][\A r1, r2 \in Reqs :
       /\ ( /\ r1 # r2
            /\ Done(r1) /\ Status(r1) = 201
            /\ Val(req[r1].createdAsset) \in assets
            /\ req[r2].pc = "hashed"
            /\ req[r2].buffer = req[r1].buffer
            /\ req'[r2] # req[r2] )
          => /\ req'[r2].pc = "done"
             /\ Val(req'[r2].res).status = 200
             /\ Val(req'[r2].res).duplicate
             /\ Val(Val(req'[r2].res).data).id = Val(req[r1].createdAsset).id
             /\ UNCHANGED Storage
       /\ (req[r2].pc \in {"idle", "start"} /\ req'[r2] # req[r2])
          => UNCHANGED Storage
  ]_vars

C1_Witness ==
  \E r1, r2 \in Reqs :
    /\ r1 # r2 /\ Done(r1) /\ Done(r2)
    /\ Status(r1) = 201 /\ Status(r2) = 200
    /\ Val(req[r2].res).duplicate
    /\ Val(req[r1].file).originalname # Val(req[r2].file).originalname
    /\ req[r1].buffer = req[r2].buffer
    /\ Val(Val(req[r2].res).data).id = Val(req[r1].createdAsset).id
    /\ Cardinality(assets) = 1
    /\ Cardinality(DOMAIN files) <= 2

\* C2: in every reachable state no two rows of the assets table carry the
\* same content hash.
C2_HashUnique ==
  \A a, b \in assets : a.file_hash = b.file_hash => a = b

\* two uploads of the same bytes both passed the lookup; the unique index
\* refused the second insert
C2_Witness ==
  \E r1, r2 \in Reqs :
    /\ r1 # r2 /\ Done(r1) /\ Done(r2)
    /\ req[r1].fileHash = req[r2].fileHash
    /\ Status(r1) = 201
    /\ Caught(r2) = "SQLITE_CONSTRAINT_UNIQUE"
    /\ Cardinality(assets) = 1

\* C3: a request whose createAsset hit the unique-hash conflict is answered
\* with the existing asset flagged as duplicate, never with an error.
C3_ConflictAnsweredAsDuplicate ==
  \A r \in Reqs :
    (Done(r) /\ Caught(r) = "SQLITE_CONSTRAINT_UNIQUE")
    => /\ Status(r) = 200
       /\ Val(req[r].res).duplicate
       /\ IsSome(Val(req[r].res).data)

\* C4: after two uploads of identical bytes that both placed a blob have
\* finished, one with 201 and the other on the conflict, every original blob
\* holding that content is the one an asset row references.
C4_LoserBlobRemoved ==
  \A r1, r2 \in Reqs :
    ( /\ r1 # r2 /\ Done(r1) /\ Done(r2)
      /\ req[r1].fileHash = req[r2].fileHash
      /\ Status(r1) = 201
      /\ Caught(r2) = "SQLITE_CONSTRAINT_UNIQUE" )
    => \A p \in DOMAIN files :
         ( /\ files[p].kind = "original"
           /\ Some(calculateBufferHashAsync(files[p].data)) = req[r1].fileHash )
         => \E a \in assets : a.file_path = p

\* C5: an upload rejected by the type check (no detectable type, or a type
\* that is neither image/* nor video/*) is answered with status 400.
C5_TypeRejectionIs400 ==
  \A r \in Reqs :
    (Done(r) /\ Caught(r) = "BadRequestError") => Status(r) = 400

\* the type check's rejection condition, as the claim words it
Unsupported(type) ==
  \/ ~IsSome(type)
  \/ Val(type).mime[1] \notin {"image", "video"}

\* C6: no step of an upload up to and including the rejection of its
\* sniffed type creates a directory or a file under the upload root or
\* inserts a row.
C6_RejectionBeforeStorage ==
  [][\A r \in Reqs :
       ( /\ req'[r] # req[r]
         /\ \/ req[r].pc \in {"idle", "start"}
            \/ req[r].pc = "hashed" /\ req'[r].pc = "sniffed"
            \/ req[r].pc = "sniffed" /\ Unsupported(req[r].type) )
       => UNCHANGED Storage
  ]_vars

\* a text upload and a PDF upload were both rejected and the tree was
\* never created
C6_Witness ==
  /\ \E r1, r2 \in Reqs :
       /\ Done(r1) /\ Caught(r1) = "BadRequestError" /\ req[r1].type = None
       /\ Done(r2) /\ Caught(r2) = "BadRequestError"
       /\ IsSome(req[r2].type) /\ Val(req[r2].type).ext = "pdf"
  /\ dirs = {} /\ DOMAIN files = {} /\ assets = {}

\* C7: a request that failed after its original blob was placed leaves
\* neither that blob nor the thumbnail it wrote behind.
C7_FailedUploadLeavesNoFile ==
  \A r \in Reqs :
    (Done(r) /\ Status(r) = 500 /\ IsSome(req[r].uploadResult))
    => /\ ~existsSync(files, Val(req[r].uploadResult).filePath)
       /\ (IsSome(req[r].processResult) /\ Val(req[r].processResult).canProcess)
          => ~existsSync(files, Val(req[r].thumbPath))

\* C8: in the step that ends a request that received a file (duplicate hit,
\* type rejection, success or failure), the temp file multer wrote for the
\* request is gone: file.path holds no file, or a file written only by
\* uploads that arrived after the request removed its own.
C8_TempFileRemoved ==
  [][\A r \in Reqs :
       (req[r].pc # "done" /\ req'[r].pc = "done" /\ IsSome(req'[r].file))
       => LET p == Val(req'[r].file).path
          IN ~existsSync(tmp', p) \/ r \notin tmp'[p].writers
  ]_vars

\* one request ended with 201 and one with the type rejection, and the
\* temp dir is empty
C8_Witness ==
  /\ \E r1, r2 \in Reqs :
       /\ Done(r1) /\ Status(r1) = 201
       /\ Done(r2) /\ Caught(r2) = "BadRequestError" /\ IsSome(req[r2].file)
  /\ DOMAIN tmp = {}

\* C9: when processImage fails (probe or thumbnail) the handler takes no
\* width, height or thumbnail path and goes on to createAsset; unless
\* createAsset itself throws, the row is created with width, height and
\* thumbnail_path NULL and the answer is 201.  An error answer of such a
\* request is never caused by the processing failure.
C9_ProcessingFailureDegrades ==
  \A r \in Reqs :
    (IsSome(req[r].processResult) /\ ~Val(req[r].processResult).canProcess)
    => /\ req[r].width = None /\ req[r].height = None /\ req[r].thumbnailPath = None
       /\ Done(r) =>
            \/ /\ Status(r) = 201
               /\ IsSome(req[r].createdAsset)
               /\ Val(req[r].res).data = req[r].createdAsset
               /\ Val(req[r].createdAsset).width = None
               /\ Val(req[r].createdAsset).height = None
               /\ Val(req[r].createdAsset).thumbnail_path = None
            \/ /\ Status(r) = 500
               /\ Caught(r) \in {"SQLITE_CONSTRAINT_UNIQUE", "SQLITE_ERROR"}
       /\ req[r].pc \in {"exif", "exifRead"} =>
            /\ Val(req[r].createdAsset).width = None
            /\ Val(req[r].createdAsset).height = None
            /\ Val(req[r].createdAsset).thumbnail_path = None

\* the thumbnail step failed after the probe had read the dimensions; the
\* row is stored without them and the upload was answered 201
C9_Witness ==
  \E r \in Reqs :
    /\ Done(r) /\ Status(r) = 201
    /\ IsSome(req[r].processResult)
    /\ ~Val(req[r].processResult).canProcess
    /\ IsSome(Val(req[r].processResult).width)
    /\ Val(req[r].createdAsset) \in assets
    /\ Val(req[r].createdAsset).width = None
    /\ Val(req[r].createdAsset).thumbnail_path = None

\* C10: no step changes what a file referenced by an existing asset row
\* (as its original or as its thumbnail) holds: a write never lands on a
\* path that already holds the file of an earlier asset.
C10_NoOverwrite ==
  [][\A p \in DOMAIN files :
       ( /\ \E a \in assets : a.file_path = p \/ a.thumbnail_path = Some(p)
         /\ p \in DOMAIN files' )
       => files'[p] = files[p]
  ]_vars

\* C11: the extension of a stored original is determined by the detected
\* type alone: two uploads whose bytes were detected as the same type are
\* stored under the same extension, whatever file names the clients sent.
C11_ExtensionFromDetectedType ==
  \A r1, r2 \in Reqs :
    ( /\ IsSome(req[r1].uploadResult) /\ IsSome(req[r2].uploadResult)
      /\ req[r1].type = req[r2].type )
    => Val(req[r1].uploadResult).storedName.ext
         = Val(req[r2].uploadResult).storedName.ext

\* the DELETE /:id answered in this step, if the step is one
Deleted(id) == del' # del /\ IsSome(del') /\ Val(del').id = id

\* C12: deleting the same asset id twice is safe.  A DELETE of an id that
\* has a row answers 200 and removes the row; a DELETE of an id that has no
\* row answers 404 and changes neither the three tables nor any file or
\* directory; and the DELETE of an id that follows a successful DELETE of
\* the same id is such a 404.
C12_SecondDeleteIsNotFound ==
  [][\A id \in Reqs :
       Deleted(id)
       => /\ IsSome(getAssetById(assets, id))
             => /\ Val(del').status = 200
                /\ getAssetById(assets', id) = None
          /\ ~IsSome(getAssetById(assets, id))
             => /\ Val(del').status = 404
                /\ UNCHANGED <<assets, asset_exif, asset_video_metadata, files, dirs>>
          /\ (IsSome(del) /\ Val(del).id = id /\ Val(del).status = 200)
             => Val(del').status = 404
  ]_vars

\* an asset was created and deleted, the DELETE was repeated and answered
\* 404, and another asset is still stored with its blob
C12_Witness ==
  /\ IsSome(del) /\ Val(del).status = 404
  /\ \E r1, r2 \in Reqs :
       /\ r1 # r2
       /\ IsSome(req[r1].createdAsset)
       /\ Val(req[r1].createdAsset).id = Val(del).id
       /\ Val(req[r1].createdAsset) \notin assets
       /\ IsSome(req[r2].createdAsset)
       /\ Val(req[r2].createdAsset) \in assets
       /\ existsSync(files, Val(req[r2].createdAsset).file_path)

C14_ExifReferencesOneImage ==
  /\ \A e \in asset_exif :
       /\ Cardinality({a \in assets : a.id = e.asset_id}) = 1
       /\ \A a \in assets : a.id = e.asset_id => a.file_type = "image"
  /\ \A a \in assets : Cardinality({e \in asset_exif : e.asset_id = a.id}) <= 1

\* an image was stored with its exif row and a video without one
C14_Witness ==
  \E r1, r2 \in Reqs :
    /\ Done(r1) /\ Status(r1) = 201 /\ IsSome(Val(req[r1].res).exif)
    /\ Val(req[r1].createdAsset) \in assets
    /\ asset_exif = {Val(Val(req[r1].res).exif)}
    /\ Done(r2) /\ Status(r2) = 201
    /\ Val(req[r2].createdAsset) \in assets
    /\ Val(req[r2].createdAsset).file_type = "video"

\* C15: a row enters the assets table only in a step of an upload request
\* that has placed its original blob (the row's file_path, which holds a
\* file) and has created no row before, so at most once per request; and
\* a row that is in the table stays exactly as it is, column by column,
\* until a successful DELETE of its id removes it.
C15_RowsInsertedOnceNeverChanged ==
  [][/\ \A a \in assets' \ assets :
          /\ \A b \in assets : b.id # a.id
          /\ \E r \in Reqs :
               /\ req[r].createdAsset = None
               /\ req'[r].createdAsset = Some(a)
               /\ IsSome(req'[r].uploadResult)
               /\ Val(req'[r].uploadResult).filePath = a.file_path
               /\ existsSync(files', a.file_path)
     /\ Cardinality(assets' \ assets) <= 1
     /\ \A r \in Reqs :
          IsSome(req[r].createdAsset) => req'[r].createdAsset = req[r].createdAsset
     /\ \A a \in assets :
          \/ a \in assets'
          \/ /\ Deleted(a.id) /\ Val(del').status = 200
             /\ \A b \in assets' : b.id # a.id
  ]_vars

\* two uploads each inserted their row after placing their blob; a third
\* row never appeared and one of the two rows was deleted again
C15_Witness ==
  \E r1, r2 \in Reqs :
    /\ r1 # r2
    /\ Done(r1) /\ Status(r1) = 201 /\ Done(r2) /\ Status(r2) = 201
    /\ Val(req[r1].createdAsset) \in assets
    /\ existsSync(files, Val(req[r1].createdAsset).file_path)
    /\ Val(req[r2].createdAsset) \notin assets
    /\ Cardinality(assets) = 1
    /\ IsSome(del) /\ Val(del).status = 200
    /\ Val(del).id = Val(req[r2].createdAsset).id

\* C16: every video upload answered 201 has run the video derivation and
\* has its row in asset_video_metadata (with is_hdr and hdr_format derived
\* from the stream's color_transfer).
C16_VideoMetadataPersisted ==
  \A r \in Reqs :
    ( /\ Done(r) /\ Status(r) = 201
      /\ Val(req[r].createdAsset).file_type = "video" )
    => \E v \in asset_video_metadata : v.asset_id = Val(req[r].createdAsset).id

\* C17: createAsset for a hash that a row of the table already carries
\* fails with the error code of the uniqueness conflict, which no other
\* database failure carries, and leaves the table and its id sequence as
\* they were.  In the handler: the step of an image upload that calls
\* createAsset while such a row exists inserts nothing and ends the request
\* on that error (or on another database failure of the same call), and a
\* request ends on the conflict only when such a row exists.
C17_ConflictRecognizableTableUnchanged ==
  [][\A r \in Reqs :
       /\ ( /\ req[r].pc = "processed"
            /\ \E a \in assets : a.file_hash = req[r].fileHash )
          => /\ LET ins == createAsset(assets, nextId,
                             [id |-> 0, file_hash |-> req[r].fileHash])
                IN /\ ~ins.ok
                   /\ ins.code = "SQLITE_CONSTRAINT_UNIQUE"
                   /\ ins.tbl = assets /\ ins.seq = nextId
             /\ req'[r] # req[r]
                => /\ assets' = assets /\ nextId' = nextId
                   /\ req'[r].pc = "done" /\ req'[r].createdAsset = None
                   /\ Val(req'[r].res).caught
                        \in {"SQLITE_CONSTRAINT_UNIQUE", "SQLITE_ERROR"}
       /\ ( /\ req[r].pc # "done" /\ req'[r].pc = "done"
            /\ Val(req'[r].res).caught = "SQLITE_CONSTRAINT_UNIQUE" )
          => /\ \E a \in assets : a.file_hash = req[r].fileHash
             /\ assets' = assets /\ nextId' = nextId
  ]_vars

\* two uploads of one image both passed the lookup; the second createAsset
\* hit the conflict and the table holds the first row only, the sequence
\* having advanced once
C17_Witness ==
  \E r1, r2 \in Reqs :
    /\ r1 # r2 /\ Done(r1) /\ Done(r2)
    /\ Status(r1) = 201
    /\ Caught(r2) = "SQLITE_CONSTRAINT_UNIQUE"
    /\ IsSome(req[r2].processResult)
    /\ assets = {Val(req[r1].createdAsset)}
    /\ nextId = 2

\* C18: asset ids are never reused.  Every id handed out is below the
\* AUTOINCREMENT sequence, which never goes back, so a new row gets an id
\* different from every id ever assigned, deleted rows included; an upload
\* whose hash no row carries at the lookup (as after the deletion of the
\* asset with those bytes) goes on as a new upload, and a 201 answer
\* carries the new row without the duplicate flag.
C18_IdsNeverReused ==
  [][/\ nextId' >= nextId
     /\ \A r \in Reqs :
          IsSome(req[r].createdAsset) => Val(req[r].createdAsset).id < nextId
     /\ \A a \in assets' \ assets :
          /\ a.id >= nextId /\ a.id < nextId'
          /\ \A r \in Reqs :
               IsSome(req[r].createdAsset) => Val(req[r].createdAsset).id # a.id
     /\ \A r \in Reqs :
          ( /\ req[r].pc = "hashed" /\ req'[r] # req[r]
            /\ ~\E a \in assets : a.file_hash = req[r].fileHash )
          => req'[r].pc = "sniffed"
     /\ \A r \in Reqs :
          (req'[r].pc = "done" /\ Val(req'[r].res).status = 201)
          => /\ ~Val(req'[r].res).duplicate
             /\ IsSome(req'[r].createdAsset)
             /\ Val(req'[r].res).data = req'[r].createdAsset
  ]_vars

\* an image was uploaded and deleted; the same bytes uploaded again were
\* answered 201 without the duplicate flag and got a new id
C18_Witness ==
  \E r1, r2 \in Reqs :
    /\ r1 # r2 /\ Done(r1) /\ Done(r2)
    /\ Status(r1) = 201 /\ Status(r2) = 201
    /\ req[r1].buffer = req[r2].buffer
    /\ Val(req[r1].createdAsset) \notin assets
    /\ Val(req[r2].createdAsset) \in assets
    /\ ~Val(req[r2].res).duplicate
    /\ Val(req[r2].createdAsset).id > Val(req[r1].createdAsset).id

\* arguments of GET /?limit=..&offset=..&type=..: page sizes and offsets
\* from 0, the type absent or a non-empty string
Limits == 0..MaxPage
Offsets == 0..MaxPage
Types == {None, Some("image"), Some("video"), Some("audio")}

Range(s) == {s[i] : i \in 1..Len(s)}
IsSortedDesc(s) ==
  \A i, j \in 1..Len(s) : i < j => s[i].created_at >= s[j].created_at

\* C19: for every limit, offset and type, getAssets returns distinct rows
\* of the table whose file_type equals type (any row when type is absent),
\* sorted by created_at descending, at most limit of them: the rows left
\* after skipping offset rows of that order, limit of them when that many
\* are left.  At most offset selected rows are newer than the first row
\* returned, and every selected row left out is at least as new as the
\* first or at most as new as the last row returned.
C19_ListFilterSortPage ==
  \A limit \in Limits, offset \in Offsets, type \in Types :
    \A res \in getAssets(assets, limit, offset, type) :
      LET matching == {a \in assets : IsSome(type) => a.file_type = Val(type)}
          n == Cardinality(matching)
          rest == IF offset >= n THEN 0 ELSE n - offset
      IN /\ Range(res) \subseteq matching
         /\ Cardinality(Range(res)) = Len(res)
         /\ IsSortedDesc(res)
         /\ Len(res) <= limit
         /\ Len(res) = IF limit > rest THEN rest ELSE limit
         /\ Len(res) > 0 =>
              /\ Cardinality({a \in matching :
                                a.created_at > res[1].created_at}) <= offset
              /\ \A a \in matching \ Range(res) :
                   \/ a.created_at >= res[1].created_at
                   \/ a.created_at <= res[Len(res)].created_at

\* an image and a later video are stored: the second page of size one
\* holds the image, the video filter returns the video alone, and a page
\* of size two holds both rows, the video first
C19_Witness ==
  \E a, b \in assets :
    /\ a.file_type = "image" /\ b.file_type = "video"
    /\ a.created_at < b.created_at
    /\ getAssets(assets, 1, 1, None) = {<<a>>}
    /\ getAssets(assets, 2, 0, Some("video")) = {<<b>>}
    /\ getAssets(assets, 2, 0, None) = {<<b, a>>}

\* chunk sizes in which createReadStream may deliver a file
HighWaterMarks == 1..MaxChunk

C21_GenericMessageUnlessValidation ==
  \A r \in Reqs :
    (Done(r) /\ Status(r) >= 400)
    => IF Caught(r) \in {"", "BadRequestError"}
       THEN Val(req[r].res).message # "Failed to upload file"
       ELSE Val(req[r].res).message = "Failed to upload file"

\* an upload that has received its file and has not been answered yet
InFlight(r) == req[r].pc \notin {"idle", "done"} /\ IsSome(req[r].file)

\* C22: two upload requests in flight at the same time never have the same
\* temp file path, and the temp file of a request in flight was written by
\* no other request.
C22_TempPathsDisjoint ==
  \A r1, r2 \in Reqs :
    (r1 # r2 /\ InFlight(r1) /\ InFlight(r2))
    => /\ Val(req[r1].file).path # Val(req[r2].file).path
       /\ existsSync(tmp, Val(req[r1].file).path)
          => r2 \notin tmp[Val(req[r1].file).path].writers

\* the position embedded in the image an upload read, and the image-metadata
\* row it was answered with
GpsOf(r) == EmbeddedOf(Val(req[r].buffer)).gps
ExifOf(r) == Val(Val(req[r].res).exif)
HasExifRow(r) == Done(r) /\ Status(r) = 201 /\ IsSome(Val(req[r].res).exif)
ArcSeconds(dms) == 3600 * dms[1] + 60 * dms[2] + dms[3]

\* the stored coordinate c is the decimal value of dms, negative for the
\* references S and W and non-negative for N and E
SignedAs(c, dms, ref) ==
  /\ c.type = "number"
  /\ ref \in {"S", "W"} => c.num < 0 /\ 0 - c.num * 3600 = ArcSeconds(dms) * c.den
  /\ ref \in {"N", "E"} => c.num >= 0 /\ c.num * 3600 = ArcSeconds(dms) * c.den

RECURSIVE Gcd(_, _)
Gcd(a, b) == IF b = 0 THEN a ELSE Gcd(b, a % b)
ReducedFraction(n, d) ==
  IntToString(n \div Gcd(n, d), 10) \o "/" \o IntToString(d \div Gcd(n, d), 10)

\* the tags of the image an upload read
TagsOf(r) == exiftoolRead(EmbeddedOf(Val(req[r].buffer)))

\* C24: an image whose exposure time is a number t with 0 < t < 1 is stored
\* with exposure_time the reduced fraction equal to t (0.008 as "1/125"),
\* and one whose exposure time is a number of 1 or more with the number
\* itself.
C24_ExposureFractionEqualsValue ==
  \A r \in Reqs :
    (HasExifRow(r) /\ TagsOf(r).ExposureTime.type = "number")
    => LET t == TagsOf(r).ExposureTime
       IN /\ (0 < t.num /\ t.num < t.den)
             => ExifOf(r).exposure_time = JsString(ReducedFraction(t.num, t.den))
          /\ t.num >= t.den => ExifOf(r).exposure_time = JsString(String(t))

\* the label of code in table, the code's string form when it has none
LabelOrRaw(table, code) ==
  IF String(code) \in DOMAIN table THEN JsString(table[String(code)])
  ELSE JsString(String(code))

\* C25: in the image-metadata row of an uploaded image, a numeric exposure
\* program, exposure mode or metering mode code is stored as its label when
\* the lookup table has one (code 0 included) and as its string form when
\* not, and a numeric flash code is stored; no code present in the image is
\* stored as NULL.
C25_CodesStoredAsLabelOrRaw ==
  \A r \in Reqs :
    HasExifRow(r)
    => LET tags == TagsOf(r)
           e == ExifOf(r)
       IN /\ tags.ExposureProgram.type = "number"
             => e.exposure_program = LabelOrRaw(programs, tags.ExposureProgram)
          /\ tags.ExposureMode.type = "number"
             => e.exposure_mode = LabelOrRaw(exposureModes, tags.ExposureMode)
          /\ tags.MeteringMode.type = "number"
             => e.metering_mode = LabelOrRaw(meteringModes, tags.MeteringMode)
          /\ tags.Flash.type = "number" => e.flash # null

\* the extraction of the uploaded image of r yields no non-empty field
NoFieldExtracted(r) ==
  /\ IsSome(req[r].buffer)
  /\ ~hasData(parseExifToolTags(TagsOf(r)))

\* C26: an uploaded image whose metadata extraction yields no non-empty
\* field gets no image-metadata row, and the response to its upload carries
\* no exif object.
C26_NoMetadataNoExifRow ==
  \A r \in Reqs :
    (Done(r) /\ Status(r) = 201 /\ NoFieldExtracted(r))
    => /\ ~IsSome(Val(req[r].res).exif)
       /\ \A e \in asset_exif : e.asset_id # Val(Val(req[r].res).data).id

\* an image whose only tag is a blank Make was uploaded and answered
C26_Witness ==
  /\ Done(1) /\ Status(1) = 201
  /\ Val(req[1].buffer) = <<"FF", "D8", "E1", Embedded([Make |-> JsString("  ")], NoGps)>>
  /\ NoFieldExtracted(1)
  /\ asset_exif = {}

\* ---- DatabaseService called directly --------------------------------------
\* values a caller may pass for an optional field
FieldValues == {undefined, null, JsString(""), JsString("x"), JsNumber(0, 1)}

\* the objects that carry asset_id and any subset of the fields
PartialInputs(fields, assetId) ==
  UNION {{[k \in S \cup {"asset_id"} |-> IF k = "asset_id" THEN assetId ELSE f[k]] :
            f \in [S -> FieldValues]} : S \in SUBSET fields}

SampleAsset ==
  [id |-> 0, original_name |-> <<"b">>, stored_name |-> <<1>>, file_path |-> <<0, 1>>,
   thumbnail_path |-> None, mime_type |-> "image/jpeg", file_type |-> "image",
   file_size |-> 3, width |-> None, height |-> None, file_hash |-> Some(<<"FF">>),
   created_at |-> 0]

\* databaseService.createAsset(asset) on an empty table
DbCreateAsset ==
  /\ assets = {}
  /\ LET ins == createAsset(assets, nextId, SampleAsset)
     IN /\ assets' = ins.tbl
        /\ nextId' = ins.seq
        /\ call' = Call("createAsset", Some(SampleAsset), ins.row, ~ins.ok)
  /\ UNCHANGED <<now, tmp, dirs, files, nextUuid, asset_exif, req,
                 asset_video_metadata, del, migrationFiles, schema_migrations, schema, running>>

\* databaseService.createExif(exif): the created row, or the error of the
\* INSERT thrown again
CallCreateExif ==
  /\ \E exif \in PartialInputs({"make", "iso"}, 1) :
       LET ins == createExif(asset_exif, assets, exif)
       IN /\ asset_exif' = ins.tbl
          /\ call' = Call("createExif", Some(exif),
                          IF ins.ok THEN getExifByAssetId(ins.tbl, exif.asset_id) ELSE None,
                          ~ins.ok)
  /\ UNCHANGED <<now, tmp, dirs, files, nextUuid, assets, nextId, req,
                 asset_video_metadata, del, migrationFiles, schema_migrations, schema, running>>

getVideoMetadataByAssetId(tbl, id) ==
  IF \E v \in tbl : v.asset_id = id THEN Some(CHOOSE v \in tbl : v.asset_id = id)
  ELSE None

\* databaseService.createVideoMetadata(videoMetadata)
CallCreateVideoMetadata ==
  /\ \E videoMetadata \in PartialInputs({"video_codec", "hdr_format"}, 1) :
       LET ins == createVideoMetadata(asset_video_metadata, assets, videoMetadata)
       IN /\ asset_video_metadata' = ins.tbl
          /\ call' = Call("createVideoMetadata", Some(videoMetadata),
                          IF ins.ok
                          THEN getVideoMetadataByAssetId(ins.tbl, videoMetadata.asset_id)
                          ELSE None,
                          ~ins.ok)
  /\ UNCHANGED <<now, tmp, dirs, files, nextUuid, assets, asset_exif, nextId, req,
                 del, migrationFiles, schema_migrations, schema, running>>

DbNext ==
  \/ DbCreateAsset
  \/ CallCreateExif
  \/ CallCreateVideoMetadata

DbSpec == Init /\ [][DbNext]_vars

\* the row stored for the argument arg: a named field that is neither
\* undefined, null nor '' keeps its value, every other column is NULL
StoredAsGiven(row, arg, columns) ==
  \A c \in columns \ {"asset_id"} :
    row[c] = IF c \in DOMAIN arg /\ arg[c] # undefined /\ arg[c] # null
                  /\ arg[c] # JsString("")
             THEN arg[c] ELSE null

NoEmptyString(tbl, columns) ==
  \A row \in tbl : \A c \in columns \ {"asset_id"} : row[c] # JsString("")

\* C27: a createExif or createVideoMetadata call that returns, whatever
\* subset of the optional fields its argument names, has stored a row in
\* which every field given as undefined, null or '' (and every field not
\* given) is NULL and every other field has the given value; no column of
\* the two metadata tables holds an empty string.
C27_EmptyValuesStoredAsNull ==
  [][/\ (call'.op = "createExif" /\ ~call'.threw)
        => /\ Val(call'.ret) \in asset_exif'
           /\ Val(call'.ret).asset_id = Val(call'.arg).asset_id
           /\ StoredAsGiven(Val(call'.ret), Val(call'.arg), ExifColumns)
     /\ (call'.op = "createVideoMetadata" /\ ~call'.threw)
        => /\ Val(call'.ret) \in asset_video_metadata'
           /\ Val(call'.ret).asset_id = Val(call'.arg).asset_id
           /\ StoredAsGiven(Val(call'.ret), Val(call'.arg), VideoColumns)
     /\ NoEmptyString(asset_exif', ExifColumns)
     /\ NoEmptyString(asset_video_metadata', VideoColumns)]_vars

\* createVideoMetadata returned for an argument that names one field, as
\* '', after createExif stored a row from an argument with an empty make
C27_Witness ==
  /\ call.op = "createVideoMetadata" /\ ~call.threw
  /\ Val(call.arg) = [asset_id |-> 1, hdr_format |-> JsString("")]
  /\ Val(call.ret).hdr_format = null /\ Val(call.ret).video_codec = null
  /\ \E e \in asset_exif : e.make = null /\ e.iso = JsNumber(0, 1)

\* ---- StorageService.deleteFile called directly ----------------------------
\* mutant: unlinkSync without the existsSync test and without the try block
deleteFileUnguarded(fs, p, unlinkOk) ==
  IF existsSync(fs, p) /\ unlinkOk
  THEN [fs |-> Unlink(fs, p), ret |-> Some(TRUE), threw |-> FALSE]
  ELSE [fs |-> fs, ret |-> None, threw |-> TRUE]

\* deleteFile(filePath): true after unlinkSync of an existing path; false
\* when the path does not exist or unlinkSync threw (the error is logged)
deleteFileCall(fs, p, unlinkOk) ==
  IF existsSync(fs, p) /\ unlinkOk
  THEN [fs |-> deleteFile(fs, p), ret |-> Some(TRUE), threw |-> FALSE]
  ELSE [fs |-> fs, ret |-> Some(FALSE), threw |-> FALSE]

\* storageService.deleteFile(p) for a path under the upload root: one that
\* exists, or the one the previous call was given
CallDeleteFile ==
  /\ \E p \in DOMAIN files \cup (IF call.op = "deleteFile" THEN {Val(call.arg)} ELSE {}),
        unlinkOk \in BOOLEAN :
       LET d == deleteFileCall(files, p, unlinkOk)
       IN /\ files' = d.fs
          /\ call' = Call("deleteFile", Some(p), d.ret, d.threw)
  /\ UNCHANGED <<now, tmp, dirs, nextUuid, assets, asset_exif, nextId, req,
                 asset_video_metadata, del, migrationFiles, schema_migrations, schema, running>>

StorageNext ==
  \/ \E r \in Reqs : SeqReceive(r)
  \/ \E r \in Reqs : ReadAndHash(r)
  \/ \E r \in Reqs : LookupByHash(r)
  \/ \E r \in Reqs : CheckTypeAndStore(r)
  \/ \E r \in Reqs : ProcessImage(r)
  \/ \E r \in Reqs : StoreImageAsset(r)
  \/ \E r \in Reqs : ExtractExif(r)
  \/ \E r \in Reqs : RecordExifAndRespond(r)
  \/ CallDeleteFile

StorageSpec == Init /\ [][StorageNext]_vars

\* C29: a deleteFile call on a path that does not exist throws nothing,
\* returns false and leaves the files and directories as they were.
C29_DeleteMissingFileIsNoOp ==
  [][(call' # call /\ call'.op = "deleteFile" /\ ~existsSync(files, Val(call'.arg)))
     => /\ ~call'.threw
        /\ call'.ret = Some(FALSE)
        /\ files' = files /\ dirs' = dirs /\ tmp' = tmp]_vars

\* the second of two deleteFile calls on the same path: the first removed
\* the file, the second returned false
C29_Witness ==
  /\ call.op = "deleteFile" /\ ~call.threw /\ call.ret = Some(FALSE)
  /\ ~existsSync(files, Val(call.arg))
  /\ \E a \in assets : a.file_path = Val(call.arg)

\* v is a string of at least four characters, each a digit or one of A..F
UpperHexPadded(v) ==
  /\ v.type = "string"
  /\ Len(v.str) >= 4
  /\ \A i \in 1..Len(v.str) : IndexOf("0123456789ABCDEF", CharAt(v.str, i)) # 0

\* C28: in the image-metadata row of an uploaded image, the ExifVersion and
\* FlashpixVersion of the image are stored as upper-case hex strings padded
\* with zeros to four digits, whether the tag was a number or a string.
C28_VersionsStoredAsUpperHex ==
  \A r \in Reqs :
    HasExifRow(r)
    => LET tags == TagsOf(r)
           e == ExifOf(r)
       IN /\ ~Falsy(tags.ExifVersion) => UpperHexPadded(e.exif_version)
          /\ ~Falsy(tags.FlashpixVersion) => UpperHexPadded(e.flashpix_version)

\* ---- MigrationService -----------------------------------------------------
MaxVersion == 2

\* a migration file V{version}__{name}.sql: whether it has a non-empty DOWN
\* section, and whether its UP and DOWN statements execute without error
MigrationFileSet ==
  [version : 1..MaxVersion, down : BOOLEAN, upOk : BOOLEAN, downOk : BOOLEAN]

\* mutant: the query finds no row
getAppliedMigrationsNone(tbl) == {}

\* SELECT * FROM __schema_migrations__ WHERE success = 1
getAppliedMigrations(tbl) == {r \in tbl : r.success = 1}

\* migrations.find((m) => m.version === version) over loadMigrations()
findMigration(dir, version) ==
  IF \E m \in dir : m.version = version
  THEN Some(CHOOSE m \in dir : m.version = version)
  ELSE None

\* mutant: the statements run outside a transaction; what a failing
\* migration changed before its error, and its failure record, stay
RECURSIVE migrateFromNoTransaction(_, _, _)
migrateFromNoTransaction(v, dir, st) ==
  IF v > MaxVersion \/ st.threw THEN st
  ELSE LET m == findMigration(dir, v)
           pending == IsSome(m) /\ ~(\E r \in getAppliedMigrations(st.tbl) : r.version = v)
       IN IF ~pending THEN migrateFromNoTransaction(v + 1, dir, st)
          ELSE IF Val(m).upOk /\ ~(\E r \in st.tbl : r.version = v)
          THEN migrateFromNoTransaction(v + 1, dir,
                 [tbl |-> st.tbl \cup {[version |-> v, success |-> 1]},
                  sch |-> st.sch \cup {v}, count |-> st.count + 1,
                  executed |-> Append(st.executed, v), threw |-> FALSE])
          ELSE [st EXCEPT !.threw = TRUE, !.sch = st.sch \cup {v},
                          !.tbl = IF \E r \in st.tbl : r.version = v THEN st.tbl
                                  ELSE st.tbl \cup {[version |-> v, success |-> 0]}]

\* the loop of migrate() from version v upwards. st is the database (tbl,
\* sch), the count and the list of the migrations executed, and whether an
\* error was thrown.
\* Each migration runs in a transaction: when its UP statements fail, what
\* the transaction wrote, the failure record included, is rolled back and
\* the error is thrown again.
RECURSIVE migrateFrom(_, _, _)
migrateFrom(v, dir, st) ==
  IF v > MaxVersion \/ st.threw THEN st
  ELSE LET m == findMigration(dir, v)
           pending == IsSome(m) /\ ~(\E r \in getAppliedMigrations(st.tbl) : r.version = v)
       IN IF ~pending THEN migrateFrom(v + 1, dir, st)
          ELSE IF Val(m).upOk /\ ~(\E r \in st.tbl : r.version = v)
          THEN migrateFrom(v + 1, dir,
                 [tbl |-> st.tbl \cup {[version |-> v, success |-> 1]},
                  sch |-> st.sch \cup {v}, count |-> st.count + 1,
                  executed |-> Append(st.executed, v), threw |-> FALSE])
          ELSE [st EXCEPT !.threw = TRUE]

\* migrate(): the pending migrations in ascending version order
migrate(dir, tbl, sch) ==
  migrateFrom(1, dir, [tbl |-> tbl, sch |-> sch, count |-> 0, executed |-> <<>>,
                       threw |-> FALSE])

\* the loop of rollback() from version v downwards: a record whose file is
\* missing or has no DOWN section is skipped (continue); the others run
\* their DOWN statements and delete their record in one transaction
RECURSIVE rollbackFrom(_, _, _, _)
rollbackFrom(v, targetVersion, dir, st) ==
  IF v <= targetVersion \/ st.threw THEN st
  ELSE LET m == findMigration(dir, v)
       IN IF ~(\E r \in getAppliedMigrations(st.tbl) : r.version = v)
          THEN rollbackFrom(v - 1, targetVersion, dir, st)
          ELSE IF ~IsSome(m) \/ ~Val(m).down
          THEN rollbackFrom(v - 1, targetVersion, dir, st)
          ELSE IF Val(m).downOk
          THEN rollbackFrom(v - 1, targetVersion, dir,
                 [tbl |-> {r \in st.tbl : r.version # v}, sch |-> st.sch \ {v},
                  count |-> st.count + 1, executed |-> Append(st.executed, v),
                  threw |-> FALSE])
          ELSE [st EXCEPT !.threw = TRUE]

\* rollback(targetVersion): the applied migrations above targetVersion in
\* descending version order
rollback(targetVersion, dir, tbl, sch) ==
  rollbackFrom(MaxVersion, targetVersion, dir,
               [tbl |-> tbl, sch |-> sch, count |-> 0, executed |-> <<>>,
                threw |-> FALSE])

\* status(): current is the version of the last applied record, 0 without
\* one; pending are the migrations with a version greater than current
status(dir, tbl) ==
  LET applied == getAppliedMigrations(tbl)
      currentVersion ==
        IF applied = {} THEN 0
        ELSE CHOOSE v \in {r.version : r \in applied} :
               \A r \in applied : r.version <= v
  IN [current |-> currentVersion,
      pending |-> {m.version : m \in {f \in dir : f.version > currentVersion}},
      applied |-> applied]

\* a developer adds a migration file with a version no file has yet
WriteMigrationFile ==
  /\ \E m \in MigrationFileSet :
       /\ ~(\E f \in migrationFiles : f.version = m.version)
       /\ migrationFiles' = migrationFiles \cup {m}
  /\ UNCHANGED <<now, tmp, dirs, files, nextUuid, assets, asset_exif, nextId, req,
                 asset_video_metadata, del, call, schema_migrations, schema, running>>

\* migrate up; the argument recorded is the migrations directory the call
\* read
CallMigrate ==
  /\ LET st == migrate(migrationFiles, schema_migrations, schema)
     IN /\ schema_migrations' = st.tbl
        /\ schema' = st.sch
        /\ call' = Call("migrate", Some(migrationFiles),
                        Some([count |-> st.count, executed |-> st.executed]), st.threw)
  /\ UNCHANGED <<now, tmp, dirs, files, nextUuid, assets, asset_exif, nextId, req,
                 asset_video_metadata, del, migrationFiles, running>>

\* migrate down <version>
CallRollback ==
  /\ \E targetVersion \in 0..MaxVersion :
       LET st == rollback(targetVersion, migrationFiles, schema_migrations, schema)
       IN /\ schema_migrations' = st.tbl
          /\ schema' = st.sch
          /\ call' = Call("rollback", Some(targetVersion),
                          Some([count |-> st.count, executed |-> st.executed]), st.threw)
  /\ UNCHANGED <<now, tmp, dirs, files, nextUuid, assets, asset_exif, nextId, req,
                 asset_video_metadata, del, migrationFiles, running>>

\* migrate status; the argument recorded is the migrations directory the
\* call read
CallStatus ==
  /\ call' = Call("status", Some(migrationFiles),
                  Some(status(migrationFiles, schema_migrations)), FALSE)
  /\ UNCHANGED <<now, tmp, dirs, files, nextUuid, assets, asset_exif, nextId, req,
                 asset_video_metadata, del, migrationFiles, schema_migrations, schema,
                 running>>

MigrationNext ==
  \/ WriteMigrationFile
  \/ CallMigrate
  \/ CallRollback
  \/ CallStatus

MigrationSpec == Init /\ [][MigrationNext]_vars

\* C30: when the latest call was rollback(targetVersion) and it returned
\* without throwing, the migrations table holds no applied migration with
\* a version greater than targetVersion.
C30_RolledBackToTarget ==
  (call.op = "rollback" /\ ~call.threw)
  => \A r \in getAppliedMigrations(schema_migrations) : r.version <= Val(call.arg)

\* C31: in every state, those between the steps of uploads in flight
\* included, the file_path of every asset row names an original blob that
\* exists on disk.
C31_RowsPointToBlobs ==
  \A a \in assets :
    /\ existsSync(files, a.file_path)
    /\ files[a.file_path].kind = "original"

\* an asset was deleted while another upload, whose row is already
\* inserted and whose blob is on disk, is still being handled
C31_Witness ==
  /\ IsSome(del) /\ Val(del).status = 200
  /\ \E r \in Reqs :
       /\ req[r].pc = "exif"
       /\ Val(req[r].createdAsset) \in assets
       /\ existsSync(files, Val(req[r].createdAsset).file_path)

\* C32: in the step in which a DELETE answers success, the original blob
\* of every asset that remains, and the thumbnail file of every remaining
\* asset that has a thumbnail_path, are on disk as they were before.
C32_DeleteLeavesOthersIntact ==
  [][\A id \in Reqs :
       (Deleted(id) /\ Val(del').status = 200)
       => \A b \in assets' :
            /\ existsSync(files', b.file_path)
            /\ files'[b.file_path] = files[b.file_path]
            /\ IsSome(b.thumbnail_path)
               => /\ existsSync(files', Val(b.thumbnail_path))
                  /\ files'[Val(b.thumbnail_path)] = files[Val(b.thumbnail_path)]
  ]_vars

\* C33: a metadata row is inserted only for an asset whose row is already
\* in the table, and neither the extraction step nor the metadata insert
\* of an upload, failing or not, touches the asset rows or the stored
\* files; the upload then answers 201 with the asset, without an exif
\* object when no metadata row was written.
C33_MetadataFailureKeepsAsset ==
  [][\A r \in Reqs :
       /\ \A e \in asset_exif' \ asset_exif : \E a \in assets : a.id = e.asset_id
       /\ (req[r].pc = "exif" /\ req'[r].pc # "exif")
          => /\ req'[r].pc = "exifRead"
             /\ assets' = assets /\ files' = files /\ asset_exif' = asset_exif
       /\ (req[r].pc = "exifRead" /\ req'[r].pc # "exifRead")
          => /\ req'[r].pc = "done"
             /\ assets' = assets /\ files' = files
             /\ Val(req'[r].res).status = 201
             /\ Val(req'[r].res).data = req[r].createdAsset
             /\ asset_exif' = asset_exif => Val(req'[r].res).exif = None
             /\ req[r].exifData = None => asset_exif' = asset_exif
  ]_vars

\* the extraction gave data, the insert of the metadata row failed: the
\* upload was answered 201 without exif and the asset row is in the table
C33_Witness ==
  \E r \in Reqs :
    /\ Done(r) /\ Status(r) = 201
    /\ IsSome(req[r].exifData)
    /\ Val(req[r].res).exif = None
    /\ Val(req[r].createdAsset) \in assets
    /\ asset_exif = {}

\* ---- the server process ---------------------------------------------------
\* the route handlers are async functions: an error one of them throws
\* rejects the promise it returned, which Express 4 does not look at. The
\* rejection of request r, or of the latest DELETE, is unhandled.
Rejected ==
  \/ \E r \in Reqs : Done(r) /\ Status(r) >= 400
  \/ IsSome(del) /\ Val(del).status >= 400

\* the process runs and no rejection waits for the 'unhandledRejection'
\* event, which Node emits before it takes the next request or callback
Serving == running /\ ~Rejected

\* process.on('unhandledRejection', ...): logger.error, process.exit(1)
UnhandledRejection ==
  /\ running /\ Rejected
  /\ running' = FALSE
  /\ UNCHANGED <<now, tmp, dirs, files, nextUuid, assets, asset_exif, nextId, req,
                 asset_video_metadata, del, call, migrationFiles, schema_migrations,
                 schema>>

ServerNext ==
  \/ Serving /\ \E r \in Reqs : SeqReceive(r)
  \/ Serving /\ \E r \in Reqs : NoFile(r)
  \/ Serving /\ \E r \in Reqs : ReadAndHash(r)
  \/ Serving /\ \E r \in Reqs : LookupByHash(r)
  \/ Serving /\ \E r \in Reqs : CheckTypeAndStore(r)
  \/ Serving /\ \E r \in Reqs : ProcessImage(r)
  \/ Serving /\ \E r \in Reqs : StoreImageAsset(r)
  \/ Serving /\ \E r \in Reqs : ExtractExif(r)
  \/ Serving /\ \E r \in Reqs : RecordExifAndRespond(r)
  \/ Serving /\ \E id \in Reqs : DeleteAsset(id)
  \/ Serving /\ Tick
  \/ UnhandledRejection

ServerSpec == Init /\ [][ServerNext]_vars

\* C34: whenever a route handler has thrown an error, the server process
\* is running, so that the error can be answered as JSON with its status
\* code and later requests are served.
C34_ThrownErrorLeavesServerRunning ==
  Rejected => running

\* the versions of the files of dir that tbl does not record as applied
PendingVersions(dir, tbl) ==
  {m.version : m \in dir} \ {r.version : r \in getAppliedMigrations(tbl)}

Ascending(seq) == \A i, j \in 1..Len(seq) : i < j => seq[i] < seq[j]

\* this step is a call of op
Calls(op) == call'.op = op /\ migrationFiles' = migrationFiles

\* C35: a migrate() call executes pending migrations in ascending version
\* order and records each with its changes; when it throws, it does so on
\* the lowest pending migration k whose UP fails: the pending migrations
\* below k are executed and recorded, k leaves neither schema changes nor
\* an applied record, no migration above k is executed, and what was
\* applied before stays applied and recorded.
C35_MigrateAscendingAtomic ==
  [][Calls("migrate")
     => LET pend == PendingVersions(migrationFiles, schema_migrations)
            failing == {k \in pend : ~Val(findMigration(migrationFiles, k)).upOk}
            executed == Val(call'.ret).executed
        IN /\ Ascending(executed)
           /\ Range(executed) \subseteq pend
           /\ getAppliedMigrations(schema_migrations')
                = getAppliedMigrations(schema_migrations)
                    \cup {[version |-> k, success |-> 1] : k \in Range(executed)}
           /\ schema' = schema \cup Range(executed)
           /\ call'.threw <=> failing # {}
           /\ ~call'.threw => Range(executed) = pend
           /\ call'.threw
              => \E k \in failing :
                   /\ \A j \in failing : k <= j
                   /\ Range(executed) = {j \in pend : j < k}
                   /\ k \notin schema'
  ]_vars

\* migrate() executed version 1 and threw on version 2: 1 is applied and
\* recorded, 2 left nothing
C35_Witness ==
  /\ call.op = "migrate" /\ call.threw
  /\ Val(call.ret).executed = <<1>>
  /\ schema = {1}
  /\ getAppliedMigrations(schema_migrations) = {[version |-> 1, success |-> 1]}
  /\ \E m \in migrationFiles : m.version = 2 /\ ~m.upOk

\* C36: a migrate() call that follows a migrate() call which did not throw,
\* with the migration files that call read, executes nothing, returns 0
\* and leaves the schema and the migrations table as they were.
C36_MigrateIdempotent ==
  [][(/\ call.op = "migrate" /\ ~call.threw
      /\ Val(call.arg) = migrationFiles
      /\ Calls("migrate"))
     => /\ ~call'.threw
        /\ Val(call'.ret).count = 0
        /\ Val(call'.ret).executed = <<>>
        /\ schema' = schema
        /\ schema_migrations' = schema_migrations
  ]_vars

\* the second of two migrate() calls: the first had executed both files
\* of the directory, the second returned 0
C36_Witness ==
  /\ call.op = "migrate" /\ ~call.threw
  /\ Val(call.ret).count = 0
  /\ Val(call.arg) = migrationFiles
  /\ {m.version : m \in migrationFiles} = {1, 2}
  /\ schema = {1, 2}
  /\ getAppliedMigrations(schema_migrations) =
       {[version |-> 1, success |-> 1], [version |-> 2, success |-> 1]}

\* C37: when the latest call was status() and the migration files are those
\* it read, the versions it reported as pending are the versions a
\* migrate() call would now take as pending and execute.
C37_StatusPendingIsMigratePending ==
  (call.op = "status" /\ Val(call.arg) = migrationFiles)
  => Val(call.ret).pending = PendingVersions(migrationFiles, schema_migrations)

\* C38: when the latest call was a migrate() that threw, the migrations
\* table holds a row with success = 0 for the version it failed on, the
\* lowest pending version whose UP fails.
C38_FailedMigrationRecorded ==
  (call.op = "migrate" /\ call.threw)
  => \E r \in schema_migrations :
       /\ r.success = 0
       /\ r.version \in PendingVersions(Val(call.arg), schema_migrations)
       /\ ~Val(findMigration(Val(call.arg), r.version)).upOk

====
